---- MODULE Spec2Model ----
(***************************************************************************)
(* A model of the RV64I guest execution core of fuzz_with_emus:            *)
(* src/src/emulator.rs (Emulator: reg/set_reg, fork, reset, run, run_emu,  *)
(* run_jit, compile_jit) and the parts of src/src/main.rs that drive it.   *)
(*                                                                         *)
(* Machine words.  TLC's integers are 32-bit, so a u64 is modelled         *)
(* exactly as the set of the positions of its 1 bits (a subset of 0..63):  *)
(* XOR is symmetric difference, AND is intersection, a shift moves the     *)
(* positions, and addition is a 64-step ripple carry.  A u32 is a subset   *)
(* of 0..31, a byte is a number in 0..255.                                 *)
(***************************************************************************)
EXTENDS Integers, Sequences, FiniteSets, TLC

----------------------------------------------------------------------------
(* Bit-set words                                                           *)

Bits64 == 0..63
Bits32 == 0..31

\* The largest bit position whose weight still fits a TLC integer.
NatBits == 0..30

\* n (0 <= n < 2^31) as a word.
W(n) == {i \in NatBits : (n \div (2^i)) % 2 = 1}

RECURSIVE SumBits(_, _)
SumBits(w, i) ==
    IF i > 30 THEN 0
    ELSE (IF i \in w THEN 2^i ELSE 0) + SumBits(w, i + 1)

\* A word that fits a TLC integer.
Small(w) == w \subseteq NatBits

\* The number a small word stands for.
N(w) == SumBits(w, 0)

\* !0 and the two's complement of small numbers: -n as a u64, n >= 1.
AllOnes == Bits64

Not64(w) == Bits64 \ w

\* The carry into bit i of a + b + c (c is the carry into bit 0): some
\* lower bit generates a carry, or c is one, and every bit between
\* propagates it.
Carry(a, b, c, i) ==
    \/ \E j \in 0..(i - 1) :
          /\ j \in a /\ j \in b
          /\ \A k \in (j + 1)..(i - 1) : k \in a \/ k \in b
    \/ c = 1 /\ \A k \in 0..(i - 1) : k \in a \/ k \in b

\* Bits i..63 of a + b + c, modulo 2^64.
AddC(a, b, i, c) ==
    {k \in i..63 : ((k \in a) # (k \in b)) # Carry(a, b, c, k)}

\* u64::wrapping_add
wrapping_add(a, b) == AddC(a, b, 0, 0)

\* u64::wrapping_sub
wrapping_sub(a, b) == AddC(a, Not64(b), 0, 1)

\* -n as a u64 (n a natural number below 2^31).
Neg(n) == wrapping_sub({}, W(n))

\* x << k, x >> k (logical) and x >> k (arithmetic) on 64 bits.
Shl64(w, k) == {i + k : i \in w} \cap Bits64
Shr64(w, k) == {i - k : i \in {j \in w : j >= k}}
Sar64(w, k) == Shr64(w, k) \cup (IF 63 \in w THEN (64 - k)..63 ELSE {})

\* The same on 32 bits (the operand is a u32).
Shl32(w, k) == {i + k : i \in w} \cap Bits32
Shr32(w, k) == {i - k : i \in {j \in w : j >= k}}
\* A 32-bit right shift that shifts zeros in.
Sar32Logical(w, k) == Shr32(w, k)
Sar32(w, k) == Shr32(w, k) \cup (IF 31 \in w THEN (32 - k)..31 ELSE {})

\* `x as u32`, `x as u8`, ...: truncation to the low n bits.
Trunc(w, n) == w \cap (0..(n - 1))

\* `x as iN as i64 as u64`: the low n bits of w, sign-extended to 64 bits.
SignExt(w, n) ==
    IF (n - 1) \in w THEN Trunc(w, n) \cup (n..63) ELSE Trunc(w, n)

Xor(a, b) == (a \ b) \cup (b \ a)

MaxOf(S) == CHOOSE x \in S : \A y \in S : y <= x

\* a < b as u64
LtU(a, b) == a # b /\ MaxOf(Xor(a, b)) \in b

\* a < b as i64
LtS(a, b) ==
    IF (63 \in a) # (63 \in b) THEN 63 \in a ELSE LtU(a, b)

\* The low 6 (5) bits of a word as a shift amount.
Low(w, n) == N(Trunc(w, n))

\* Byte k (0 = least significant) of a word, as a number in 0..255.
ByteOf(w, k) == N(Shr64(w, 8 * k) \cap (0..7))

RECURSIVE FromLeBytes(_, _)
\* uN::from_le_bytes: the word whose k-th byte is bytes[k + 1].
FromLeBytes(bytes, k) ==
    IF k > Len(bytes) THEN {}
    ELSE Shl64(W(bytes[k]), 8 * (k - 1)) \cup FromLeBytes(bytes, k + 1)

----------------------------------------------------------------------------
(* Bounds of the model                                                     *)

\* Bytes of guest memory (Emulator::new(size); 32 MiB in main.rs).
MemSize == 96

\* mmu::DIRTY_BLOCK_SIZE, bytes per dirty block (4096 in the program; the
\* modelled memory is a few blocks of this smaller size).
DIRTY_BLOCK_SIZE == 16

\* GuestState::timeout, in retired instructions (50_000_000 in the program,
\* emulator.rs:77; the model counts to this smaller threshold).
Timeout == 6

\* The interpreter's instruction counter is followed this far past Timeout.
MaxOverrun == 3

\* Host calls of set_reg and of reset that a behaviour may contain.
MaxSetReg == 1
MaxReset == 1

----------------------------------------------------------------------------
(* Instruction formats: impl From<u32> for Rtype/Stype/Jtype/Btype/Itype/  *)
(* Utype.  inst is a u32 (a subset of 0..31).  A register is its index     *)
(* 0..32; an immediate (i32 in the source) is kept as the u64 that         *)
(* `imm as i64 as u64` gives, i.e. sign-extended to 64 bits.               *)

\* (inst >> lo) & (2^n - 1)
Field(inst, lo, n) == N(Trunc(Shr64(inst, lo), n))

\* Register::from(val): assert!(val < 33)
RegisterFrom(val) == val

Zero == 0
Ra == 1
A0 == 10
A1 == 11
A2 == 12
A7 == 17
Pc == 32

Rtype(inst) ==
    [funct7 |-> Field(inst, 25, 7),
     rs2    |-> RegisterFrom(Field(inst, 20, 5)),
     rs1    |-> RegisterFrom(Field(inst, 15, 5)),
     funct3 |-> Field(inst, 12, 3),
     rd     |-> RegisterFrom(Field(inst, 7, 5))]

Stype(inst) ==
    LET imm115 == Trunc(Shr64(inst, 25), 7)
        imm40  == Trunc(Shr64(inst, 7), 5)
        imm    == Shl64(imm115, 5) \cup imm40
    IN  [imm    |-> SignExt(imm, 12),
         rs2    |-> RegisterFrom(Field(inst, 20, 5)),
         rs1    |-> RegisterFrom(Field(inst, 15, 5)),
         funct3 |-> Field(inst, 12, 3)]

Jtype(inst) ==
    LET imm20   == Trunc(Shr64(inst, 31), 1)
        imm101  == Trunc(Shr64(inst, 21), 10)
        imm11   == Trunc(Shr64(inst, 20), 1)
        imm1912 == Trunc(Shr64(inst, 12), 8)
        imm     == Shl64(imm20, 20) \cup Shl64(imm1912, 12) \cup
                   Shl64(imm11, 11) \cup Shl64(imm101, 1)
    IN  [imm |-> SignExt(imm, 21),
         rd  |-> RegisterFrom(Field(inst, 7, 5))]

Btype(inst) ==
    LET imm12  == Trunc(Shr64(inst, 31), 1)
        imm105 == Trunc(Shr64(inst, 25), 6)
        imm41  == Trunc(Shr64(inst, 8), 4)
        imm11  == Trunc(Shr64(inst, 7), 1)
        imm    == Shl64(imm12, 12) \cup Shl64(imm11, 11) \cup
                  Shl64(imm105, 5) \cup Shl64(imm41, 1)
    IN  [imm    |-> SignExt(imm, 13),
         rs2    |-> RegisterFrom(Field(inst, 20, 5)),
         rs1    |-> RegisterFrom(Field(inst, 15, 5)),
         funct3 |-> Field(inst, 12, 3)]

Itype(inst) ==
    [imm    |-> SignExt(Shr64(inst, 20), 12),
     rs1    |-> RegisterFrom(Field(inst, 15, 5)),
     funct3 |-> Field(inst, 12, 3),
     rd     |-> RegisterFrom(Field(inst, 7, 5))]

Utype(inst) ==
    [imm |-> SignExt(inst \ (0..11), 32),
     rd  |-> RegisterFrom(Field(inst, 7, 5))]

\* The two SYSTEM words the source compares against.
ECALL  == W(115)
EBREAK == W(1048691)

----------------------------------------------------------------------------
(* Exits: enum VmExit.  Every exit is a record (kind, addr, len); addr and *)
(* len are {} and 0 for the kinds that carry none.                         *)

VmExit(kind) == [kind |-> kind, addr |-> {}, len |-> 0, msg |-> ""]
Fault(kind, addr) == [kind |-> kind, addr |-> addr, len |-> 0, msg |-> ""]
AddressMiss(addr, len) ==
    [kind |-> "AddressMiss", addr |-> addr, len |-> len, msg |-> ""]

\* A Rust panic (panic!, unreachable!, unimplemented!, a failed unwrap):
\* the thread aborts, nothing is returned to the caller.
Panic(msg) == [kind |-> "PANIC", addr |-> {}, len |-> 0, msg |-> msg]

\* No exit: the value of a Result that is Ok(()).
Ok == VmExit("Ok")

CrashKinds ==
    {"AddressMiss", "ReadFault", "ExecFault", "UninitFault", "WriteFault",
     "InvalidFree", "InvalidOpcode"}

\* enum FaultType, for the exits that carry one.
FaultTypeOf(kind) ==
    CASE kind = "AddressMiss"   -> "Bounds"
      [] kind = "ReadFault"     -> "Read"
      [] kind = "ExecFault"     -> "Exec"
      [] kind = "UninitFault"   -> "Uninit"
      [] kind = "WriteFault"    -> "Write"
      [] kind = "InvalidFree"   -> "Free"
      [] kind = "InvalidOpcode" -> "InvalidOpcode"
      [] OTHER                  -> ""

\* An is_crash that takes a Timeout for a fault.
is_crash_or_timeout(x) ==
    IF x.kind \in (CrashKinds \cup {"Timeout"}) \ {"InvalidOpcode"}
    THEN [some |-> TRUE, fault |-> FaultTypeOf(x.kind), addr |-> x.addr]
    ELSE IF x.kind = "InvalidOpcode"
    THEN [some |-> TRUE, fault |-> FaultTypeOf(x.kind), addr |-> {}]
    ELSE [some |-> FALSE, fault |-> "", addr |-> {}]

\* VmExit::is_crash: Some((fault type, address)) or None.
is_crash(x) ==
    IF x.kind \in CrashKinds \ {"InvalidOpcode"}
    THEN [some |-> TRUE, fault |-> FaultTypeOf(x.kind), addr |-> x.addr]
    ELSE IF x.kind = "InvalidOpcode"
    THEN [some |-> TRUE, fault |-> FaultTypeOf(x.kind), addr |-> {}]
    ELSE [some |-> FALSE, fault |-> "", addr |-> {}]

----------------------------------------------------------------------------
(* The MMU (crate::mmu, used by emulator.rs through Mmu, Perm, PERM_*,     *)
(* DIRTY_BLOCK_SIZE).  A permission byte is a number 0..15.                *)

PERM_READ  == 1
PERM_WRITE == 2
PERM_EXEC  == 4
PERM_RAW   == 8

HasPerm(p, bit) == (p \div bit) % 2 = 1

Addrs == 0..(MemSize - 1)

\* Mmu::new(size)
MmuNew ==
    [memory       |-> [a \in Addrs |-> 0],
     permissions  |-> [a \in Addrs |-> 0],
     dirty        |-> <<>>,
     dirty_len    |-> 0,
     dirty_bitmap |-> {},
     allocations  |-> {},
     cur_alc      |-> DIRTY_BLOCK_SIZE]

\* Mmu::len
MmuLen(m) == MemSize

\* Mmu::dirty_len / Mmu::set_dirty_len
dirty_len(m) == m.dirty_len
set_dirty_len(m, n) == [m EXCEPT !.dirty_len = n]

\* Mmu::fork: copies of memory and permissions, an empty dirty log.
MmuFork(m) ==
    [m EXCEPT !.dirty = <<>>, !.dirty_len = 0, !.dirty_bitmap = {}]

\* The addresses of dirty block b.
BlockAddrs(b) ==
    {a \in Addrs : a \div DIRTY_BLOCK_SIZE = b}

\* Mmu::reset: every block of the dirty log is copied back from `other`,
\* its bit is cleared and the log is truncated.
MmuReset(m, other) ==
    LET logged == {m.dirty[i] : i \in 1..m.dirty_len}
        back   == UNION {BlockAddrs(b) : b \in logged}
    IN  [m EXCEPT
           !.memory       = [a \in Addrs |->
                                IF a \in back THEN other.memory[a] ELSE @[a]],
           !.permissions  = [a \in Addrs |->
                                IF a \in back THEN other.permissions[a]
                                ELSE @[a]],
           !.dirty_bitmap = @ \ logged,
           !.dirty        = <<>>,
           !.dirty_len    = 0,
           !.allocations  = other.allocations,
           !.cur_alc      = other.cur_alc]

\* checked_add of an address and a length overflows usize.
AddrOverflow(addr, n) == LtU(wrapping_add(addr, W(n)), addr)

\* The range [addr, addr + n) lies in guest memory.
InBounds(addr, n) == Small(addr) /\ N(addr) + n <= MemSize

\* The check every accessor makes before it touches memory: Ok, or the
\* fault of the first byte that lacks `exp`.
AccessCheck(m, addr, n, exp) ==
    IF AddrOverflow(addr, n) THEN VmExit("AddressIntegerOverflow")
    ELSE IF ~InBounds(addr, n) THEN AddressMiss(addr, n)
    ELSE LET a   == N(addr)
             bad == {i \in 0..(n - 1) : ~HasPerm(m.permissions[a + i], exp)}
         IN  IF bad = {} THEN Ok
             ELSE LET i == CHOOSE j \in bad : \A k \in bad : j <= k
                      p == m.permissions[a + i]
                  IN  IF exp = PERM_WRITE THEN Fault("WriteFault", W(a + i))
                      ELSE IF exp = PERM_READ /\ HasPerm(p, PERM_RAW)
                      THEN Fault("UninitFault", W(a + i))
                      ELSE Fault("ReadFault", W(a + i))

\* The Result of a read whose check gave chk: the n bytes at addr, or chk.
ReadResult(m, addr, n, chk) ==
    IF chk.kind # "Ok" THEN [err |-> chk, bytes |-> <<>>]
    ELSE [err |-> chk, bytes |-> [k \in 1..n |-> m.memory[N(addr) + k - 1]]]

\* Mmu::read_into_perms: Ok with the n bytes at addr, or the fault.
read_into_perms(m, addr, n, exp) ==
    ReadResult(m, addr, n, AccessCheck(m, addr, n, exp))

\* Mmu::read_into
read_into(m, addr, n) == read_into_perms(m, addr, n, PERM_READ)

\* Mmu::read_perms::<u32>
read_perms(m, addr, exp) == read_into_perms(m, addr, 4, exp)

RECURSIVE MarkDirty(_, _, _)
\* Blocks b..last enter the dirty log unless their bit is already set.
MarkDirty(m, b, last) ==
    IF b > last THEN m
    ELSE IF b \in m.dirty_bitmap THEN MarkDirty(m, b + 1, last)
    ELSE MarkDirty([m EXCEPT !.dirty = Append(SubSeq(@, 1, m.dirty_len), b),
                             !.dirty_len = @ + 1,
                             !.dirty_bitmap = @ \cup {b}],
                   b + 1, last)

\* Mmu::write_from / Mmu::write::<T>: WRITE on every byte, the bytes are
\* stored, every block touched is marked dirty, RAW bytes gain READ.
write_from(m, addr, bytes) ==
    LET n   == Len(bytes)
        chk == AccessCheck(m, addr, n, PERM_WRITE)
    IN  IF chk.kind # "Ok" THEN [err |-> chk, mmu |-> m]
        ELSE LET a  == N(addr)
                 m1 == [m EXCEPT
                          !.memory = [x \in Addrs |->
                              IF x >= a /\ x < a + n THEN bytes[x - a + 1]
                              ELSE @[x]],
                          !.permissions = [x \in Addrs |->
                              IF x >= a /\ x < a + n /\ HasPerm(@[x], PERM_RAW)
                                 /\ ~HasPerm(@[x], PERM_READ)
                              THEN @[x] + PERM_READ ELSE @[x]]]
             IN  [err |-> chk,
                  mmu |-> IF n = 0 THEN m1
                          ELSE MarkDirty(m1, a \div DIRTY_BLOCK_SIZE,
                                         (a + n - 1) \div DIRTY_BLOCK_SIZE)]

\* Mmu::free: the base must be a live allocation; WRITE and READ are cleared
\* on its range, the entry is removed, and the blocks of the range enter
\* the dirty log (reset has to restore their permissions).
MmuFree(m, base) ==
    IF ~\E al \in m.allocations : al[1] = base
    THEN [err |-> Fault("InvalidFree", base), mmu |-> m]
    ELSE LET al == CHOOSE x \in m.allocations : x[1] = base
             a  == N(base)
         IN  [err |-> Ok,
              mmu |-> MarkDirty(
                 [m EXCEPT
                    !.permissions = [x \in Addrs |->
                        IF x >= a /\ x < a + al[2]
                        THEN @[x] - (IF HasPerm(@[x], PERM_WRITE)
                                     THEN PERM_WRITE ELSE 0)
                                  - (IF HasPerm(@[x], PERM_READ)
                                     THEN PERM_READ ELSE 0)
                        ELSE @[x]],
                    !.allocations = @ \ {al}],
                 a \div DIRTY_BLOCK_SIZE,
                 (a + al[2] - 1) \div DIRTY_BLOCK_SIZE)]

\* Mmu::get_alc: the size of the live allocation at base, if there is one.
get_alc(m, base) ==
    IF \E al \in m.allocations : al[1] = base
    THEN [some |-> TRUE,
          size |-> (CHOOSE al \in m.allocations : al[1] = base)[2]]
    ELSE [some |-> FALSE, size |-> 0]

\* Mmu::allocate(size): the size is rounded up to the block size and
\* cur_alc is bumped by it; None when that leaves memory; the range gets
\* WRITE|RAW, its blocks enter the dirty log, base -> size is recorded.
allocate(m, size) ==
    LET base  == m.cur_alc
        bytes == IF Small(size) THEN N(size) ELSE 0
        align == ((bytes + DIRTY_BLOCK_SIZE - 1) \div DIRTY_BLOCK_SIZE)
                     * DIRTY_BLOCK_SIZE
    IN  IF ~Small(size) \/ base + align > MemSize
        THEN [some |-> FALSE, base |-> {}, mmu |-> m]
        ELSE LET m1 == [m EXCEPT
                          !.cur_alc = base + align,
                          !.permissions = [x \in Addrs |->
                              IF x >= base /\ x < base + bytes
                              THEN PERM_WRITE + PERM_RAW ELSE @[x]],
                          !.allocations =
                              {al \in @ : al[1] # W(base)}
                                  \cup {<<W(base), bytes>>}]
             IN  [some |-> TRUE, base |-> W(base),
                  mmu  |-> IF bytes = 0 THEN m1
                           ELSE MarkDirty(m1, base \div DIRTY_BLOCK_SIZE,
                                    (base + bytes - 1) \div DIRTY_BLOCK_SIZE)]

\* The n low bytes of a word, least significant first (to_le_bytes).
ToLeBytes(w, n) == [k \in 1..n |-> ByteOf(w, k - 1)]

----------------------------------------------------------------------------
(* Decoding.  run_emu and compile_jit hold the same match on the opcode    *)
(* and the sub-fields (emulator.rs 638-1073 and 1431-1917); Decode is that *)
(* match: the operation with its operands, or the panic of the arm that    *)
(* the source ends in unimplemented!() or unreachable!().                  *)

DN(op) == [op |-> op, rd |-> 0, rs1 |-> 0, rs2 |-> 0, imm |-> {},
           shamt |-> 0, msg |-> ""]

Bad(msg) == [op |-> "PANIC", rd |-> 0, rs1 |-> 0, rs2 |-> 0, imm |-> {},
             shamt |-> 0, msg |-> msg]

DI(op, i) == [op |-> op, rd |-> i.rd, rs1 |-> i.rs1, rs2 |-> 0,
              imm |-> i.imm, shamt |-> 0, msg |-> ""]

DR(op, r) == [op |-> op, rd |-> r.rd, rs1 |-> r.rs1, rs2 |-> r.rs2,
              imm |-> {}, shamt |-> 0, msg |-> ""]

DSB(op, i) == [op |-> op, rd |-> 0, rs1 |-> i.rs1, rs2 |-> i.rs2,
               imm |-> i.imm, shamt |-> 0, msg |-> ""]

DU(op, u) == [op |-> op, rd |-> u.rd, rs1 |-> 0, rs2 |-> 0,
              imm |-> u.imm, shamt |-> 0, msg |-> ""]

DSh(op, i, n) == [op |-> op, rd |-> i.rd, rs1 |-> i.rs1, rs2 |-> 0,
                  imm |-> i.imm, shamt |-> Low(i.imm, n), msg |-> ""]

DecodeFields(inst, opcode, i, r, b, st) ==
        CASE opcode = 55  -> DU("LUI", Utype(inst))
          [] opcode = 23  -> DU("AUIPC", Utype(inst))
          [] opcode = 111 -> DU("JAL", Jtype(inst))
          [] opcode = 103 ->
                IF i.funct3 = 0 THEN DI("JALR", i)
                ELSE Bad("unimplemented: Unexpected 0b1100111")
          [] opcode = 99 ->
                (CASE b.funct3 = 0 -> DSB("BEQ", b)
                  [] b.funct3 = 1 -> DSB("BNE", b)
                  [] b.funct3 = 4 -> DSB("BLT", b)
                  [] b.funct3 = 5 -> DSB("BGE", b)
                  [] b.funct3 = 6 -> DSB("BLTU", b)
                  [] b.funct3 = 7 -> DSB("BGEU", b)
                  [] OTHER -> Bad("unimplemented: Unexpected 0b1100011"))
          [] opcode = 3 ->
                (CASE i.funct3 = 0 -> DI("LB", i)
                  [] i.funct3 = 1 -> DI("LH", i)
                  [] i.funct3 = 2 -> DI("LW", i)
                  [] i.funct3 = 3 -> DI("LD", i)
                  [] i.funct3 = 4 -> DI("LBU", i)
                  [] i.funct3 = 5 -> DI("LHU", i)
                  [] i.funct3 = 6 -> DI("LWU", i)
                  [] OTHER -> Bad("unimplemented: Unexpected 0b0000011"))
          [] opcode = 35 ->
                (CASE st.funct3 = 0 -> DSB("SB", st)
                  [] st.funct3 = 1 -> DSB("SH", st)
                  [] st.funct3 = 2 -> DSB("SW", st)
                  [] st.funct3 = 3 -> DSB("SD", st)
                  [] OTHER -> Bad("unimplemented: Unexpected 0b0100011"))
          [] opcode = 19 ->
                LET mode == N(Trunc(Sar64(i.imm, 6), 6))
                IN  (CASE i.funct3 = 0 -> DI("ADDI", i)
                      [] i.funct3 = 2 -> DI("SLTI", i)
                      [] i.funct3 = 3 -> DI("SLTIU", i)
                      [] i.funct3 = 4 -> DI("XORI", i)
                      [] i.funct3 = 6 -> DI("ORI", i)
                      [] i.funct3 = 7 -> DI("ANDI", i)
                      [] i.funct3 = 1 ->
                            IF mode = 0 THEN DSh("SLLI", i, 6)
                            ELSE Bad("unreachable")
                      [] i.funct3 = 5 ->
                            IF mode = 0 THEN DSh("SRLI", i, 6)
                            ELSE IF mode = 16 THEN DSh("SRAI", i, 6)
                            ELSE Bad("unreachable"))
          [] opcode = 51 ->
                (CASE r.funct7 = 0  /\ r.funct3 = 0 -> DR("ADD", r)
                  [] r.funct7 = 32 /\ r.funct3 = 0 -> DR("SUB", r)
                  [] r.funct7 = 0  /\ r.funct3 = 1 -> DR("SLL", r)
                  [] r.funct7 = 0  /\ r.funct3 = 2 -> DR("SLT", r)
                  [] r.funct7 = 0  /\ r.funct3 = 3 -> DR("SLTU", r)
                  [] r.funct7 = 0  /\ r.funct3 = 4 -> DR("XOR", r)
                  [] r.funct7 = 0  /\ r.funct3 = 5 -> DR("SRL", r)
                  [] r.funct7 = 32 /\ r.funct3 = 5 -> DR("SRA", r)
                  [] r.funct7 = 0  /\ r.funct3 = 6 -> DR("OR", r)
                  [] r.funct7 = 0  /\ r.funct3 = 7 -> DR("AND", r)
                  [] OTHER -> Bad("unreachable"))
          [] opcode = 59 ->
                (CASE r.funct7 = 0  /\ r.funct3 = 0 -> DR("ADDW", r)
                  [] r.funct7 = 32 /\ r.funct3 = 0 -> DR("SUBW", r)
                  [] r.funct7 = 0  /\ r.funct3 = 1 -> DR("SLLW", r)
                  [] r.funct7 = 0  /\ r.funct3 = 5 -> DR("SRLW", r)
                  [] r.funct7 = 32 /\ r.funct3 = 5 -> DR("SRAW", r)
                  [] OTHER -> Bad("unreachable"))
          [] opcode = 15 ->
                IF i.funct3 = 0 THEN DI("FENCE", i) ELSE Bad("unreachable")
          [] opcode = 115 ->
                IF inst = ECALL THEN DN("ECALL")
                ELSE IF inst = EBREAK THEN DN("EBREAK")
                ELSE Bad("unreachable")
          [] opcode = 27 ->
                LET modew == N(Trunc(Sar64(i.imm, 5), 7))
                IN  (CASE i.funct3 = 0 -> DI("ADDIW", i)
                      [] i.funct3 = 1 ->
                            IF modew = 0 THEN DSh("SLLIW", i, 5)
                            ELSE Bad("unreachable")
                      [] i.funct3 = 5 ->
                            IF modew = 0 THEN DSh("SRLIW", i, 5)
                            ELSE IF modew = 32 THEN DSh("SRAIW", i, 5)
                            ELSE Bad("unreachable")
                      [] OTHER -> Bad("unreachable"))
          [] OTHER -> Bad("unimplemented: Unhandled opcode")

\* The decoded instruction: the match on inst & 0b1111111 and on the
\* fields of the format the arm converts inst to.
Decode(inst) ==
    DecodeFields(inst, Field(inst, 0, 7), Itype(inst), Rtype(inst),
                 Btype(inst), Stype(inst))

Branches == {"BEQ", "BNE", "BLT", "BGE", "BLTU", "BGEU"}
Loads    == {"LB", "LH", "LW", "LD", "LBU", "LHU", "LWU"}
Stores   == {"SB", "SH", "SW", "SD"}

\* Bytes moved by a load or a store.
AccessSize(op) ==
    CASE op \in {"LB", "LBU", "SB"} -> 1
      [] op \in {"LH", "LHU", "SH"} -> 2
      [] op \in {"LW", "LWU", "SW"} -> 4
      [] op \in {"LD", "SD"} -> 8

\* The load types that sign-extend (i8, i16, i32, i64 / intN_t).
SignedLoad(op) == op \in {"LB", "LH", "LW", "LD"}

Bool(c) == IF c THEN W(1) ELSE W(0)

----------------------------------------------------------------------------
(* The emulator: struct Emulator { memory, state, fuzz_input, files,       *)
(* breakpoints, jit_cache }.  An emulator value e is a record; the         *)
(* operations take it and give the changed record.                         *)

\* GuestState::default()
GuestStateDefault ==
    [exit_reason   |-> "None",
     reenter_pc    |-> {},
     cov_from      |-> {},
     cov_to        |-> {},
     regs          |-> [r \in 0..32 |-> {}],
     dirty_idx     |-> 0,
     instrs_execed |-> 0,
     timeout       |-> Timeout]

\* enum EmuFile { Stdin, Stdout, Stderr, FuzzInput { cursor } }; a slot of
\* the file table (Files: Vec<Option<EmuFile>>) is a file or None.
EmuFile(kind, cursor) == [kind |-> kind, cursor |-> cursor]
Stdin  == EmuFile("Stdin", 0)
Stdout == EmuFile("Stdout", 0)
Stderr == EmuFile("Stderr", 0)
FuzzInput(cursor) == EmuFile("FuzzInput", cursor)
None == EmuFile("None", 0)

\* Emulator::new(size), with or without enable_jit(cache).
EmulatorNew(jit) ==
    [memory      |-> MmuNew,
     state       |-> GuestStateDefault,
     fuzz_input  |-> <<>>,
     files       |-> <<Stdin, Stdout, Stderr>>,
     breakpoints |-> <<>>,
     jit_cache   |-> jit]

\* Emulator::fork
fork(e) ==
    [memory      |-> MmuFork(e.memory),
     state       |-> [GuestStateDefault EXCEPT !.regs = e.state.regs],
     fuzz_input  |-> e.fuzz_input,
     files       |-> e.files,
     breakpoints |-> e.breakpoints,
     jit_cache   |-> e.jit_cache]

\* A reset that leaves the file table as the last case left it.
reset_keeping_files(e, other) ==
    [e EXCEPT !.memory = MmuReset(e.memory, other.memory),
              !.state.regs = other.state.regs]

\* Emulator::reset (ENABLE_TRACING is false)
reset(e, other) ==
    [e EXCEPT !.memory = MmuReset(e.memory, other.memory),
              !.state.regs = other.state.regs,
              !.files = other.files]

\* Emulator::reg
reg(e, register) ==
    IF register # Zero THEN e.state.regs[register] ELSE {}

\* Emulator::set_reg
set_reg(e, register, val) ==
    IF register # Zero THEN [e EXCEPT !.state.regs[register] = val] ELSE e

\* Emulator::add_breakpoint
add_breakpoint(e, pc, callback) ==
    [e EXCEPT !.breakpoints =
        [x \in (DOMAIN @) \cup {pc} |-> IF x = pc THEN callback ELSE @[x]]]

\* free_bp (main.rs)
free_bp(e) ==
    LET base == reg(e, A1)
        fr   == MmuFree(e.memory, base)
    IN  IF base # {} /\ fr.err.kind # "Ok" THEN [emu |-> e, err |-> fr.err]
        ELSE [emu |-> set_reg([e EXCEPT !.memory =
                                  IF base # {} THEN fr.mmu ELSE @],
                              Pc, reg(e, Ra)),
              err |-> Ok]

RECURSIVE ReallocCopy(_, _, _, _, _)
\* for ii in ii..to_copy: the byte at old + ii is written at new + ii if
\* it can be read (write(..).unwrap() panics if the write fails: the
\* result is then a panic, not an Mmu).
ReallocCopy(m, old, new, ii, to_copy) ==
    IF ii >= to_copy THEN [err |-> Ok, mmu |-> m]
    ELSE LET rd == read_into(m, wrapping_add(old, W(ii)), 1)
             wr == write_from(m, wrapping_add(new, W(ii)), rd.bytes)
         IN  IF rd.err.kind # "Ok"
             THEN ReallocCopy(m, old, new, ii + 1, to_copy)
             ELSE IF wr.err.kind # "Ok"
             THEN [err |-> Panic("unwrap on Err"),
                   mmu |-> m]
             ELSE ReallocCopy(wr.mmu, old, new, ii + 1, to_copy)

\* A realloc_bp that takes a pointer that is no live allocation for an
\* allocation of size 0.
realloc_bp_lenient(e) ==
    LET size == reg(e, A2)
        al   == allocate(e.memory, size)
    IN  [emu |-> set_reg(set_reg([e EXCEPT !.memory = al.mmu], A0, al.base),
                         Pc, reg(e, Ra)),
         err |-> Ok]

\* realloc_bp (main.rs)
realloc_bp(e) ==
    LET old_alc  == reg(e, A1)
        size     == reg(e, A2)
        old      == get_alc(e.memory, old_alc)
        old_size == IF old_alc = {} THEN 0 ELSE old.size
        to_copy  == IF Small(size) /\ N(size) < old_size
                    THEN N(size) ELSE old_size
        al       == allocate(e.memory, size)
        cp       == ReallocCopy(al.mmu, old_alc, al.base, 0, to_copy)
        fr       == MmuFree(cp.mmu, old_alc)
        ret(m, new_alc) ==
            [emu |-> set_reg(set_reg([e EXCEPT !.memory = m], A0, new_alc),
                             Pc, reg(e, Ra)),
             err |-> Ok]
    IN  IF old_alc # {} /\ ~old.some
        THEN [emu |-> e, err |-> Fault("InvalidFree", old_alc)]
        ELSE IF ~al.some THEN ret(e.memory, {})
        ELSE IF old_alc = {} THEN ret(al.mmu, al.base)
        ELSE IF cp.err.kind # "Ok" THEN [emu |-> e, err |-> cp.err]
        ELSE IF fr.err.kind # "Ok"
        THEN [emu |-> e, err |-> Panic("Failed to free old allocation?")]
        ELSE ret(fr.mmu, al.base)

\* _end_case (main.rs)
end_case(e) == [emu |-> e, err |-> VmExit("Exit")]

\* Mmu::peek(addr, len, perm): the bytes, after the check of the accessors
\* (the length of a miss longer than memory is not followed).
peek(m, addr, len, exp) ==
    IF Small(len) THEN read_into_perms(m, addr, N(len), exp)
    ELSE [err   |-> IF LtU(wrapping_add(addr, len), addr)
                    THEN VmExit("AddressIntegerOverflow")
                    ELSE AddressMiss(addr, 0),
          bytes |-> <<>>]

\* malloc_bp (main.rs)
malloc_bp(e) ==
    LET al == allocate(e.memory, reg(e, A1))
    IN  [emu |-> set_reg(set_reg([e EXCEPT !.memory = al.mmu], A0,
                                 IF al.some THEN al.base ELSE {}),
                         Pc, reg(e, Ra)),
         err |-> Ok]

RECURSIVE MulAcc(_, _, _)
\* acc + a * (the sum of 2^k, k in bits), or None when a term or a sum
\* leaves 64 bits.
MulAcc(a, bits, acc) ==
    IF bits = {} THEN [some |-> TRUE, val |-> acc]
    ELSE LET k   == CHOOSE x \in bits : \A y \in bits : x <= y
             sum == wrapping_add(acc, Shl64(a, k))
         IN  IF MaxOf(a) + k > 63 \/ LtU(sum, acc)
             THEN [some |-> FALSE, val |-> {}]
             ELSE MulAcc(a, bits \ {k}, sum)

\* usize::checked_mul
checked_mul(a, b) ==
    IF a = {} THEN [some |-> TRUE, val |-> {}] ELSE MulAcc(a, b, {})

\* calloc_bp (main.rs): size.checked_mul(nmemb), allocate, and the bytes
\* of the view peek(alc, size, PERM_WRITE) borrows are set to 0; the
\* permissions and the dirty log are as allocate left them.
calloc_bp(e) ==
    LET total == checked_mul(reg(e, A2), reg(e, A1))
        al    == allocate(e.memory, total.val)
        tmp   == peek(al.mmu, al.base, total.val, PERM_WRITE)
        zero  == [al.mmu EXCEPT !.memory = [x \in Addrs |->
                     IF x >= N(al.base) /\ x < N(al.base) + N(total.val)
                     THEN 0 ELSE @[x]]]
        ret(m, result) ==
            [emu |-> set_reg(set_reg([e EXCEPT !.memory = m], A0, result),
                             Pc, reg(e, Ra)),
             err |-> Ok]
    IN  IF ~total.some \/ ~al.some THEN ret(e.memory, {})
        ELSE IF tmp.err.kind # "Ok"
        THEN [emu |-> e, err |-> Panic("New allocation not writable?")]
        ELSE ret(zero, al.base)

\* A BreakpointCallback, by name: fn(&mut Emulator) -> Result<(), VmExit>.
Callback(name, e) ==
    CASE name = "free_bp"    -> free_bp(e)
      [] name = "realloc_bp" -> realloc_bp(e)
      [] name = "malloc_bp"  -> malloc_bp(e)
      [] name = "calloc_bp"  -> calloc_bp(e)
      [] name = "end_case"   -> end_case(e)

----------------------------------------------------------------------------
(* The host's system calls: handle_syscall (main.rs).  Every arm gives the *)
(* emulator it leaves and Ok, the exit it returns, or its panic.           *)

\* Files::get_file: the slot of descriptor fd, if the table has one.
get_file(files, fd) ==
    IF Small(fd) /\ N(fd) < Len(files)
    THEN [some |-> TRUE, file |-> files[N(fd) + 1]]
    ELSE [some |-> FALSE, file |-> None]

\* *emu.files.get_file(fd).unwrap() = file
set_file(e, fd, file) == [e EXCEPT !.files[fd + 1] = file]

\* An alloc_file that never reuses a slot.
alloc_file_append(e) ==
    [emu |-> [e EXCEPT !.files = Append(@, None)], fd |-> Len(e.files)]

\* Emulator::alloc_file: the first slot that holds None, else a new slot
\* pushed at the end of the table.
alloc_file(e) ==
    LET free == {i \in 1..Len(e.files) : e.files[i] = None}
    IN  IF free # {}
        THEN [emu |-> e, fd |-> (CHOOSE i \in free : \A j \in free : i <= j) - 1]
        ELSE [emu |-> [e EXCEPT !.files = Append(@, None)],
              fd  |-> Len(e.files)]

RECURSIVE StrLen(_, _, _)
\* while emu.memory.read::<u8>(VirtAddr(filename + fnlen))? != 0
\*     { fnlen += 1 }
StrLen(m, filename, fnlen) ==
    LET rd == read_into(m, wrapping_add(filename, W(fnlen)), 1)
    IN  IF rd.err.kind # "Ok" THEN [err |-> rd.err, fnlen |-> fnlen]
        ELSE IF rd.bytes[1] = 0 THEN [err |-> Ok, fnlen |-> fnlen]
        ELSE StrLen(m, filename, fnlen + 1)

\* The path at filename: its bytes, or the exit of the read that failed.
PathAt(m, filename) ==
    LET sl == StrLen(m, filename, 0)
    IN  IF sl.err.kind # "Ok" THEN [err |-> sl.err, bytes |-> <<>>]
        ELSE peek(m, filename, W(sl.fnlen), PERM_READ)

\* b"testfn"
testfn == <<116, 101, 115, 116, 102, 110>>

\* The 128 bytes of struct Stat (repr(C)) for an input of len bytes.
StatBytes(len) ==
    ToLeBytes(W(2051), 8) \o ToLeBytes(W(530569), 8) \o
    ToLeBytes(W(33188), 4) \o ToLeBytes(W(1), 4) \o
    ToLeBytes(W(1000), 4) \o ToLeBytes(W(1000), 4) \o
    ToLeBytes(W(0), 8) \o ToLeBytes(W(0), 8) \o
    ToLeBytes(W(len), 8) \o ToLeBytes(W(4096), 4) \o ToLeBytes(W(0), 4) \o
    ToLeBytes(W((len + 511) \div 512), 8) \o
    ToLeBytes(W(1594876486), 8) \o ToLeBytes(W(0), 8) \o
    ToLeBytes(W(1594876484), 8) \o ToLeBytes(W(0), 8) \o
    ToLeBytes(W(1594876484), 8) \o ToLeBytes(W(0), 8) \o
    ToLeBytes(W(0), 4) \o ToLeBytes(W(0), 4)

\* Ok(()) with the emulator e, and Ok(()) after emu.set_reg(A0, val).
SysOk(e) == [emu |-> e, err |-> Ok]
SysRet(e, val) == SysOk(set_reg(e, A0, val))
SysErr(e, x) == [emu |-> e, err |-> x]

\* 214: brk
sys_brk(e) ==
    IF reg(e, A0) = {} THEN SysRet(e, {})
    ELSE SysErr(e, Panic("Not expecting brk"))

\* 64: write
sys_write(e) ==
    LET file == get_file(e.files, reg(e, A0))
        len  == reg(e, A2)
    IN  IF file.some /\ file.file # None
        THEN IF file.file \in {Stdout, Stderr}
             THEN LET bytes == peek(e.memory, reg(e, A1), len, PERM_READ)
                  IN  IF bytes.err.kind # "Ok" THEN SysErr(e, bytes.err)
                      ELSE SysRet(e, len)
             ELSE SysErr(e, Panic("Write to valid but unhandled FD"))
        ELSE SysRet(e, AllOnes)

\* A read that moves the cursor and sets a0 before the bytes are written.
sys_read_eager(e) ==
    LET fd   == reg(e, A0)
        len  == reg(e, A2)
        file == get_file(e.files, fd)
        flen == Len(e.fuzz_input)
    IN  IF ~file.some \/ file.file = None THEN SysRet(e, AllOnes)
        ELSE IF file.file.kind # "FuzzInput"
        THEN SysErr(e, Panic("unreachable"))
        ELSE LET cursor == file.file.cursor
                 result_cursor ==
                     IF Small(len) /\ cursor + N(len) <= flen
                     THEN cursor + N(len) ELSE flen
                 wr == write_from(e.memory, reg(e, A1),
                                  SubSeq(e.fuzz_input, cursor + 1,
                                         result_cursor))
                 moved == set_file(e, N(fd), FuzzInput(result_cursor))
             IN  IF wr.err.kind # "Ok" THEN SysErr(moved, wr.err)
                 ELSE SysRet([moved EXCEPT !.memory = wr.mmu],
                             W(result_cursor - cursor))

\* 63: read
sys_read(e) ==
    LET fd   == reg(e, A0)
        len  == reg(e, A2)
        file == get_file(e.files, fd)
        flen == Len(e.fuzz_input)
    IN  IF ~file.some \/ file.file = None THEN SysRet(e, AllOnes)
        ELSE IF file.file.kind # "FuzzInput"
        THEN SysErr(e, Panic("unreachable"))
        ELSE LET cursor == file.file.cursor
                 result_cursor ==
                     IF Small(len) /\ cursor + N(len) <= flen
                     THEN cursor + N(len) ELSE flen
             IN  IF cursor > result_cursor
                 THEN SysErr(e, Panic("slice index starts after its end"))
                 ELSE LET wr == write_from(e.memory, reg(e, A1),
                                    SubSeq(e.fuzz_input, cursor + 1,
                                           result_cursor))
                      IN  IF wr.err.kind # "Ok" THEN SysErr(e, wr.err)
                          ELSE SysRet(
                              set_file([e EXCEPT !.memory = wr.mmu], N(fd),
                                       FuzzInput(result_cursor)),
                              W(result_cursor - cursor))

\* A seek that is clamped at 0 but not at the length of the input.
SeekToPastEnd(base, offset, len) ==
    LET back == wrapping_sub({}, offset)
    IN  IF 63 \in offset
        THEN (IF Small(back) /\ N(back) <= base THEN base - N(back) ELSE 0)
        ELSE (IF Small(offset) THEN base + N(offset) ELSE len)

\* max(0, min(len, base.saturating_add(offset))) for 0 <= base, offset an
\* i64: the sum saturates only above len.
SeekTo(base, offset, len) ==
    LET back == wrapping_sub({}, offset)
        to   == IF 63 \in offset
                THEN (IF Small(back) /\ N(back) <= base
                      THEN base - N(back) ELSE 0)
                ELSE (IF Small(offset) THEN base + N(offset) ELSE len)
    IN  IF to > len THEN len ELSE to

\* 62: lseek
sys_lseek(e) ==
    LET fd     == reg(e, A0)
        offset == reg(e, A1)
        whence == Trunc(reg(e, A2), 32)
        file   == get_file(e.files, fd)
        flen   == Len(e.fuzz_input)
    IN  IF ~file.some \/ file.file = None THEN SysRet(e, AllOnes)
        ELSE IF file.file.kind # "FuzzInput"
        THEN SysErr(e, Panic("unreachable"))
        ELSE IF whence \notin {W(0), W(1), W(2)} THEN SysRet(e, AllOnes)
        ELSE LET base == CASE whence = W(0) -> 0
                           [] whence = W(1) -> file.file.cursor
                           [] whence = W(2) -> flen
                 new_cursor == SeekTo(base, offset, flen)
             IN  SysRet(set_file(e, N(fd), FuzzInput(new_cursor)),
                        W(new_cursor))

\* 1024: open
sys_open(e) ==
    IF reg(e, A1) # {}
    THEN SysErr(e, Panic("Currently we only handle O_RDONLY"))
    ELSE LET bytes == PathAt(e.memory, reg(e, A0))
         IN  IF bytes.err.kind # "Ok" THEN SysErr(e, bytes.err)
             ELSE IF bytes.bytes = testfn
             THEN LET al == alloc_file(e)
                  IN  SysRet(set_file(al.emu, al.fd, FuzzInput(0)), W(al.fd))
             ELSE SysRet(e, AllOnes)

\* The stat structure is written at statbuf and 0 is returned.
WriteStat(e, statbuf) ==
    LET wr == write_from(e.memory, statbuf, StatBytes(Len(e.fuzz_input)))
    IN  IF wr.err.kind # "Ok" THEN SysErr(e, wr.err)
        ELSE SysRet([e EXCEPT !.memory = wr.mmu], {})

\* 1038: stat
sys_stat(e) ==
    LET bytes == PathAt(e.memory, reg(e, A0))
    IN  IF bytes.err.kind # "Ok" THEN SysErr(e, bytes.err)
        ELSE IF bytes.bytes = testfn THEN WriteStat(e, reg(e, A1))
        ELSE SysRet(e, AllOnes)

\* 80: fstat
sys_fstat(e) ==
    LET file == get_file(e.files, reg(e, A0))
    IN  IF ~file.some \/ file.file = None THEN SysRet(e, AllOnes)
        ELSE IF file.file.kind = "FuzzInput" THEN WriteStat(e, reg(e, A1))
        ELSE SysRet(e, AllOnes)

\* 57: close
sys_close(e) ==
    LET fd   == reg(e, A0)
        file == get_file(e.files, fd)
    IN  IF file.some /\ file.file # None
        THEN SysRet(set_file(e, N(fd), None), {})
        ELSE SysRet(e, AllOnes)

\* handle_syscall: the match on the number in A7.
handle_syscall(e) ==
    LET num == reg(e, A7)
    IN  CASE num = W(214)  -> sys_brk(e)
          [] num = W(64)   -> sys_write(e)
          [] num = W(63)   -> sys_read(e)
          [] num = W(62)   -> sys_lseek(e)
          [] num = W(1024) -> sys_open(e)
          [] num = W(1038) -> sys_stat(e)
          [] num = W(80)   -> sys_fstat(e)
          [] num = W(57)   -> sys_close(e)
          [] num = W(93)   -> SysErr(e, VmExit("Exit"))
          [] OTHER         -> SysErr(e, Panic("Unhandled syscall"))

----------------------------------------------------------------------------
(* The interpreter: Emulator::run_emu                                      *)

\* The value an ALU instruction of run_emu writes to rd: a is reg(rs1),
\* b is reg(rs2), d.imm the immediate, pc the instruction's address.
EmuAlu(d, a, b, pc) ==
    LET imm == d.imm
        a32 == Trunc(a, 32)
        b32 == Trunc(b, 32)
    IN  CASE d.op = "LUI"   -> imm
          [] d.op = "AUIPC" -> wrapping_add(imm, pc)
          [] d.op = "ADDI"  -> wrapping_add(a, imm)
          [] d.op = "SLTI"  -> Bool(LtS(a, imm))
          [] d.op = "SLTIU" -> Bool(LtU(a, imm))
          [] d.op = "XORI"  -> Xor(a, imm)
          [] d.op = "ORI"   -> a \cup imm
          [] d.op = "ANDI"  -> a \cap imm
          [] d.op = "SLLI"  -> Shl64(a, d.shamt)
          [] d.op = "SRLI"  -> Shr64(a, d.shamt)
          [] d.op = "SRAI"  -> Sar64(a, d.shamt)
          [] d.op = "ADD"   -> wrapping_add(a, b)
          [] d.op = "SUB"   -> wrapping_sub(a, b)
          [] d.op = "SLL"   -> Shl64(a, Low(b, 6))
          [] d.op = "SLT"   -> Bool(LtS(a, b))
          [] d.op = "SLTU"  -> Bool(LtU(a, b))
          [] d.op = "XOR"   -> Xor(a, b)
          [] d.op = "SRL"   -> Shr64(a, Low(b, 6))
          [] d.op = "SRA"   -> Sar64(a, Low(b, 6))
          [] d.op = "OR"    -> a \cup b
          [] d.op = "AND"   -> a \cap b
          [] d.op = "ADDW"  -> SignExt(wrapping_add(a32, b32), 32)
          [] d.op = "SUBW"  -> SignExt(wrapping_sub(a32, b32), 32)
          [] d.op = "SLLW"  -> SignExt(Shl32(a32, Low(b32, 5)), 32)
          [] d.op = "SRLW"  -> SignExt(Shr32(a32, Low(b32, 5)), 32)
          [] d.op = "SRAW"  -> SignExt(Sar32(a32, Low(b32, 5)), 32)
          [] d.op = "ADDIW" -> SignExt(wrapping_add(a32, Trunc(imm, 32)), 32)
          [] d.op = "SLLIW" -> SignExt(Shl32(a32, d.shamt), 32)
          [] d.op = "SRLIW" -> SignExt(Shr32(a32, d.shamt), 32)
          [] d.op = "SRAIW" -> SignExt(Sar32(a32, d.shamt), 32)

\* The condition of a conditional branch of run_emu.
EmuTaken(op, rs1, rs2) ==
    CASE op = "BEQ"  -> rs1 = rs2
      [] op = "BNE"  -> rs1 # rs2
      [] op = "BLT"  -> LtS(rs1, rs2)
      [] op = "BGE"  -> ~LtS(rs1, rs2)
      [] op = "BLTU" -> LtU(rs1, rs2)
      [] op = "BGEU" -> ~LtU(rs1, rs2)

\* An arm of run_emu that writes PC and then falls to the post-increment
\* instead of continuing 'next_inst.
EmuJumpAdvancing(e1) == [emu |-> e1, jumped |-> FALSE, exit |-> Ok]

\* How an arm of run_emu's match ends: it falls to the post-increment of
\* PC, it continues 'next_inst with PC written, or it returns x.
EmuCont(e1)      == [emu |-> e1, jumped |-> FALSE, exit |-> Ok]
EmuJump(e1)      == [emu |-> e1, jumped |-> TRUE, exit |-> Ok]
EmuReturn(e, x)  == [emu |-> e, jumped |-> FALSE, exit |-> x]

\* A load arm after self.memory.read_into(addr, &mut tmp) gave rd.
EmuLoad(e, d, n, rd) ==
    IF rd.err.kind # "Ok" THEN EmuReturn(e, rd.err)
    ELSE EmuCont(set_reg(e, d.rd,
                   IF SignedLoad(d.op)
                   THEN SignExt(FromLeBytes(rd.bytes, 1), 8 * n)
                   ELSE FromLeBytes(rd.bytes, 1)))

\* A store arm after self.memory.write(addr, val) gave wr.
EmuStore(e, wr) ==
    IF wr.err.kind # "Ok" THEN EmuReturn(e, wr.err)
    ELSE EmuCont([e EXCEPT !.memory = wr.mmu])

\* The match on the opcode in run_emu, for the decoded instruction d at pc:
\* the emulator after it, `jumped` when the arm ends in continue 'next_inst
\* (PC written, no post-increment), and the Err it returns (or Ok).
EmuExec(e, pc, d) ==
    LET rs1 == reg(e, d.rs1)
        rs2 == reg(e, d.rs2)
    IN  CASE d.op = "PANIC" -> EmuReturn(e, Panic(d.msg))
          [] d.op = "JAL" ->
                EmuJump(set_reg(set_reg(e, d.rd, wrapping_add(pc, W(4))),
                                Pc, wrapping_add(pc, d.imm)))
          [] d.op = "JALR" ->
                EmuJump(set_reg(set_reg(e, d.rd, wrapping_add(pc, W(4))),
                                Pc, wrapping_add(rs1, d.imm)))
          [] d.op \in Branches ->
                IF EmuTaken(d.op, rs1, rs2)
                THEN EmuJump(set_reg(e, Pc, wrapping_add(pc, d.imm)))
                ELSE EmuCont(e)
          [] d.op \in Loads ->
                EmuLoad(e, d, AccessSize(d.op),
                        read_into(e.memory, wrapping_add(rs1, d.imm),
                                  AccessSize(d.op)))
          [] d.op \in Stores ->
                EmuStore(e, write_from(e.memory, wrapping_add(rs1, d.imm),
                                       ToLeBytes(rs2, AccessSize(d.op))))
          [] d.op = "FENCE"  -> EmuCont(e)
          [] d.op = "ECALL"  -> EmuReturn(e, VmExit("Syscall"))
          [] d.op = "EBREAK" -> EmuReturn(e, Panic("EBREAK"))
          [] OTHER -> EmuCont(set_reg(e, d.rd, EmuAlu(d, rs1, rs2, pc)))

\* map_err(|x| VmExit::ExecFault(x.is_crash().unwrap().1)) on the Result
\* rd of read_perms, and the u32 read.
FetchResult(rd, crash) ==
    IF rd.err.kind = "Ok"
    THEN [err |-> Ok, inst |-> FromLeBytes(rd.bytes, 1)]
    ELSE IF crash.some
    THEN [err |-> Fault("ExecFault", crash.addr), inst |-> {}]
    ELSE [err |-> Panic("unwrap on None"), inst |-> {}]

\* The instruction fetch of run_emu and of compile_jit: the alignment
\* check, then read_perms with PERM_EXEC.
Fetch(m, pc) ==
    IF pc \cap {0, 1} # {} THEN [err |-> Fault("ExecFault", pc), inst |-> {}]
    ELSE FetchResult(read_perms(m, pc, PERM_EXEC),
                     is_crash(read_perms(m, pc, PERM_EXEC).err))

\* A run_emu that makes the post-increment of PC before it returns the
\* Err of an arm.
run_emu_exec_advancing(instrs, pc, ex) ==
    [emu |-> IF ex.jumped THEN ex.emu
             ELSE set_reg(ex.emu, Pc, wrapping_add(pc, W(4))),
     instrs |-> instrs + 1, exit |-> ex.exit]

\* run_emu from the counter update on: ex is what the match did.
run_emu_exec(instrs, pc, ex) ==
    IF ex.exit.kind # "Ok"
    THEN [emu |-> ex.emu, instrs |-> instrs + 1, exit |-> ex.exit]
    ELSE [emu |-> IF ex.jumped THEN ex.emu
                  ELSE set_reg(ex.emu, Pc, wrapping_add(pc, W(4))),
          instrs |-> instrs + 1, exit |-> Ok]

\* A run_emu that counts the instruction before it looks for a
\* breakpoint.
run_emu_bp_counting(instrs, pc, inst, cb) ==
    IF cb.err.kind # "Ok"
    THEN [emu |-> cb.emu, instrs |-> instrs + 1, exit |-> cb.err]
    ELSE IF reg(cb.emu, Pc) # pc
    THEN [emu |-> cb.emu, instrs |-> instrs + 1, exit |-> Ok]
    ELSE run_emu_exec(instrs, pc, EmuExec(cb.emu, pc, Decode(inst)))

\* run_emu from the breakpoint lookup on: cb is what the callback of pc
\* returned (Ok and the emulator unchanged when pc has none).
run_emu_bp(instrs, pc, inst, cb) ==
    IF cb.err.kind # "Ok"
    THEN [emu |-> cb.emu, instrs |-> instrs, exit |-> cb.err]
    ELSE IF reg(cb.emu, Pc) # pc
    THEN [emu |-> cb.emu, instrs |-> instrs, exit |-> Ok]
    ELSE run_emu_exec(instrs, pc, EmuExec(cb.emu, pc, Decode(inst)))

\* run_emu after the fetch f of the instruction at pc.
run_emu_fetched(e, instrs, pc, f) ==
    IF f.err.kind # "Ok"
    THEN [emu |-> e, instrs |-> instrs, exit |-> f.err]
    ELSE run_emu_bp(instrs, pc, f.inst,
                    IF pc \in DOMAIN e.breakpoints
                    THEN Callback(e.breakpoints[pc], e)
                    ELSE [emu |-> e, err |-> Ok])

\* One iteration of the 'next_inst loop of run_emu, with the counter
\* *instrs_execed: the emulator and the counter after it, and the Err the
\* function returns (Ok while the loop goes on).
run_emu_iter(e, instrs) ==
    run_emu_fetched(e, instrs, reg(e, Pc), Fetch(e.memory, reg(e, Pc)))

RECURSIVE run_emu_loop(_, _)
\* The 'next_inst loop of run_emu from the result r of the iterations so
\* far, followed for at most `fuel` more iterations.
run_emu_loop(r, fuel) ==
    IF r.exit.kind # "Ok" \/ fuel = 0 THEN r
    ELSE run_emu_loop(run_emu_iter(r.emu, r.instrs), fuel - 1)

\* Emulator::run_emu(&mut instrs): what it returns (exit) with the emulator
\* and the counter it leaves, or exit Ok when it is still running after
\* `fuel` iterations.
run_emu(e, instrs, fuel) ==
    run_emu_loop([emu |-> e, instrs |-> instrs, exit |-> Ok], fuel)

----------------------------------------------------------------------------
(* The JIT lifter: Emulator::compile_jit.  A translation unit is the set   *)
(* of labelled blocks inst_<pc> it emits: for each visited pc the          *)
(* instruction word that was lifted and whether a breakpoint exit was      *)
(* emitted for it.                                                         *)

\* Words of the coverage bitmap: vec![0u64; 1024 * 1024] in main.rs.
coverage_bitmap_len == 1048576

\* size_of_val(corpus.coverage_bitmap.as_slice()) * 8
coverage_bitmap_bits == coverage_bitmap_len * 64

\* A lifter that emits the goto of a taken branch and does not push its
\* target.
LiftSuccessorsNoTarget(d, pc) ==
    LET target == wrapping_add(pc, d.imm)
        next   == wrapping_add(pc, W(4))
    IN  CASE d.op = "JAL"  -> IF d.rd = Zero THEN <<target>> ELSE << >>
          [] d.op = "JALR" -> << >>
          [] OTHER -> <<next>>

\* The PCs that compile_jit pushes on `queued` after lifting d at pc, in
\* the order of the pushes.
LiftSuccessors(d, pc) ==
    LET target == wrapping_add(pc, d.imm)
        next   == wrapping_add(pc, W(4))
    IN  CASE d.op = "JAL"  -> IF d.rd = Zero THEN <<target>> ELSE << >>
          [] d.op = "JALR" -> << >>
          [] d.op \in Branches -> <<target, next>>
          [] OTHER -> <<next>>

RECURSIVE Lift(_, _, _, _)

\* The unit with the block of pc added: the label, the breakpoint exit
\* when pc has a breakpoint, and the lifted instruction.
AddBlock(e, unit, pc, inst) ==
    [code |-> [x \in (DOMAIN unit.code) \cup {pc} |->
                  IF x = pc THEN inst ELSE unit.code[x]],
     bps  |-> unit.bps \cup
              (IF pc \in DOMAIN e.breakpoints THEN {pc} ELSE {})]

\* The loop body of compile_jit for a pc not visited before, after the
\* read d of its instruction and the match on it.
LiftInst(e, queued, visited, unit, pc, inst, d) ==
    IF d.op = "PANIC" THEN [err |-> Panic(d.msg), unit |-> unit]
    ELSE Lift(e, Tail(queued) \o LiftSuccessors(d, pc), visited \cup {pc},
              AddBlock(e, unit, pc, inst))

\* The same, after the fetch f.
LiftFetched(e, queued, visited, unit, pc, f) ==
    IF f.err.kind # "Ok" THEN [err |-> f.err, unit |-> unit]
    ELSE LiftInst(e, queued, visited, unit, pc, f.inst, Decode(f.inst))

\* The while-let loop over `queued` of compile_jit: Ok with the unit, or
\* the Err (ExecFault) or panic that ends the translation.
Lift(e, queued, visited, unit) ==
    IF queued = << >> THEN [err |-> Ok, unit |-> unit]
    ELSE IF Head(queued) \in visited
    THEN Lift(e, Tail(queued), visited, unit)
    ELSE LiftFetched(e, queued, visited, unit, Head(queued),
                     Fetch(e.memory, Head(queued)))

\* Emulator::compile_jit(pc): the translation of the region reachable
\* from pc (the external compiler turns it into native code).
compile_jit(e, pc) ==
    Lift(e, <<pc>>, {}, [code |-> << >>, bps |-> {}])

----------------------------------------------------------------------------
(* Translated code: what the C++ that compile_jit emits for one labelled   *)
(* block does to struct _state, the guest memory and the coverage bitmap.  *)

\* The constants of the edge hash in coverage_event!.
HashK1 == {0, 1, 3, 4, 5, 7, 13, 14, 17, 21, 23, 24, 25, 27, 28, 30, 31, 32,
           35, 36, 40, 42, 44, 46, 47, 48, 50, 51, 53, 54, 57, 58, 61, 62, 63}
HashK2 == {0, 2, 4, 8, 10, 11, 12, 14, 17, 18, 26, 29, 31, 34, 38, 39, 40,
           46, 47, 49, 50, 51, 56, 58, 61, 63}

\* The index of the edge (from, to) in the coverage bitmap.
CovHash(from, to) ==
    LET h0 == Xor(Xor(from, HashK1), Xor(to, HashK2))
        h1 == Xor(h0, Shl64(h0, 13))
        h2 == Xor(h1, Shr64(h1, 17))
        h3 == Xor(h2, Shl64(h2, 43))
    IN  N(h3 \cap W(coverage_bitmap_bits - 1))

\* The value an ALU instruction writes to rd in translated code: the C++
\* expression of the arm, with the types the emitted text gives it.
JitAlu(d, a, b, pc) ==
    LET imm == d.imm
        a32 == Trunc(a, 32)
        b32 == Trunc(b, 32)
    IN  CASE d.op = "LUI"   -> imm
          [] d.op = "AUIPC" -> wrapping_add(imm, pc)
          [] d.op = "ADDI"  -> wrapping_add(a, imm)
          \* "((int64_t)rs1 < {:#x}LL) ? 1 : 0" with inst.imm as i64: a
          \* negative immediate prints as 0xffff...LL, a literal that does
          \* not fit long long and so has type unsigned long long; the
          \* comparison is then made in uint64_t.
          [] d.op = "SLTI"  -> IF 63 \in imm THEN Bool(LtU(a, imm))
                               ELSE Bool(LtS(a, imm))
          [] d.op = "SLTIU" -> Bool(LtU(a, imm))
          [] d.op = "XORI"  -> Xor(a, imm)
          [] d.op = "ORI"   -> a \cup imm
          [] d.op = "ANDI"  -> a \cap imm
          [] d.op = "SLLI"  -> Shl64(a, d.shamt)
          [] d.op = "SRLI"  -> Shr64(a, d.shamt)
          [] d.op = "SRAI"  -> Sar64(a, d.shamt)
          [] d.op = "ADD"   -> wrapping_add(a, b)
          [] d.op = "SUB"   -> wrapping_sub(a, b)
          [] d.op = "SLL"   -> Shl64(a, Low(b, 6))
          [] d.op = "SLT"   -> Bool(LtS(a, b))
          [] d.op = "SLTU"  -> Bool(LtU(a, b))
          [] d.op = "XOR"   -> Xor(a, b)
          [] d.op = "SRL"   -> Shr64(a, Low(b, 6))
          [] d.op = "SRA"   -> Sar64(a, Low(b, 6))
          [] d.op = "OR"    -> a \cup b
          [] d.op = "AND"   -> a \cap b
          [] d.op = "ADDW"  -> SignExt(wrapping_add(a32, b32), 32)
          [] d.op = "SUBW"  -> SignExt(wrapping_sub(a32, b32), 32)
          [] d.op = "SLLW"  -> SignExt(Shl32(a32, Low(b32, 5)), 32)
          [] d.op = "SRLW"  -> SignExt(Shr32(a32, Low(b32, 5)), 32)
          [] d.op = "SRAW"  -> SignExt(Sar32(a32, Low(b32, 5)), 32)
          [] d.op = "ADDIW" -> SignExt(wrapping_add(a32, Trunc(imm, 32)), 32)
          [] d.op = "SLLIW" -> SignExt(Shl32(a32, d.shamt), 32)
          [] d.op = "SRLIW" -> SignExt(Shr32(a32, d.shamt), 32)
          [] d.op = "SRAIW" -> SignExt(Sar32(a32, d.shamt), 32)

\* The comparison "(cmptyp)rs1 cmpop (cmptyp)rs2" of a branch.
JitTaken(op, rs1, rs2) ==
    CASE op = "BEQ"  -> rs1 = rs2
      [] op = "BNE"  -> rs1 # rs2
      [] op = "BLT"  -> LtS(rs1, rs2)
      [] op = "BGE"  -> ~LtS(rs1, rs2)
      [] op = "BLTU" -> LtU(rs1, rs2)
      [] op = "BGEU" -> ~LtU(rs1, rs2)

\* A bounds check that is off by one: addr >= len - sizeof(T).
JitAccessFailsOffByOne(e, addr, n, bit) ==
    \/ ~Small(addr)
    \/ N(addr) >= MmuLen(e.memory) - n
    \/ \E i \in 0..(n - 1) : ~HasPerm(e.memory.permissions[N(addr) + i], bit)

\* The bounds and permission check of a translated load or store:
\* addr > len - sizeof(T), or not every permission byte has `bit`.
JitAccessFails(e, addr, n, bit) ==
    \/ ~Small(addr)
    \/ N(addr) > MmuLen(e.memory) - n
    \/ \E i \in 0..(n - 1) : ~HasPerm(e.memory.permissions[N(addr) + i], bit)

\* A dirty-log update that appends the block and leaves its bit clear.
JitDirtyNoBit(e, addr) ==
    LET block == N(addr) \div DIRTY_BLOCK_SIZE
        idx   == e.state.dirty_idx
    IN  IF block \in e.memory.dirty_bitmap THEN e
        ELSE [e EXCEPT
                !.memory.dirty = Append(SubSeq(@, 1, idx), block),
                !.state.dirty_idx = idx + 1]

\* The dirty-log update of a translated store: the block of the access
\* base enters the log unless its bit is set.
JitDirty(e, addr) ==
    LET block == N(addr) \div DIRTY_BLOCK_SIZE
        idx   == e.state.dirty_idx
    IN  IF block \in e.memory.dirty_bitmap THEN e
        ELSE [e EXCEPT
                !.memory.dirty = Append(SubSeq(@, 1, idx), block),
                !.state.dirty_idx = idx + 1,
                !.memory.dirty_bitmap = @ \cup {block}]

\* A translated store without the promotion of RAW bytes to READ.
JitStoreNoPromote(e, addr, n, val) ==
    LET a  == N(addr)
        e2 == JitDirty(e, addr)
        bytes == ToLeBytes(val, n)
    IN  [e2 EXCEPT !.memory.memory = [x \in Addrs |->
            IF x >= a /\ x < a + n THEN bytes[x - a + 1] ELSE @[x]]]

\* The body of a translated store after its check: READ is granted to
\* the bytes that have RAW (perms |= (perms & raw_mask) >> 3), the dirty
\* log is updated and the value is written.
JitStore(e, addr, n, val) ==
    LET a  == N(addr)
        e1 == [e EXCEPT !.memory.permissions = [x \in Addrs |->
                 IF x >= a /\ x < a + n /\ HasPerm(@[x], PERM_RAW)
                    /\ ~HasPerm(@[x], PERM_READ)
                 THEN @[x] + (PERM_RAW \div 8) ELSE @[x]]]
        e2 == JitDirty(e1, addr)
        bytes == ToLeBytes(val, n)
    IN  [e2 EXCEPT !.memory.memory = [x \in Addrs |->
            IF x >= a /\ x < a + n THEN bytes[x - a + 1] ELSE @[x]]]

\* A set_reg! that emits the store for every register, x0 included: the
\* lowering that the guard on Register::Zero rules out.
JitSetRegUnguarded(e, register, val) ==
    [e EXCEPT !.state.regs[register] = val]

\* set_reg! / set_regw!: the store to state->regs[reg] is emitted only
\* for reg != Register::Zero.
JitSetReg(e, register, val) ==
    IF register # Zero THEN [e EXCEPT !.state.regs[register] = val] ELSE e

\* get_reg! / get_regw!: 0x0ULL for Register::Zero, else state->regs[reg].
JitGetReg(e, register) ==
    IF register = Zero THEN {} ELSE e.state.regs[register]

\* A return that sets exit_reason and leaves reenter_pc as it was.
JitReturnStale(e, bm, reason, reenter) ==
    [emu  |-> [e EXCEPT !.state.exit_reason = reason],
     bm   |-> bm, ret |-> TRUE, goto |-> {}]

\* A return from translated code with exit_reason and reenter_pc set.
JitReturn(e, bm, reason, reenter) ==
    [emu  |-> [e EXCEPT !.state.exit_reason = reason,
                        !.state.reenter_pc = reenter],
     bm   |-> bm, ret |-> TRUE, goto |-> {}]

JitGoto(e, bm, label) == [emu |-> e, bm |-> bm, ret |-> FALSE, goto |-> label]

\* A coverage_event! whose check is instrs_execed >= timeout: it fires
\* one instruction early.
coverage_event_early(e, bm, pc, from, to) ==
    IF e.state.instrs_execed >= e.state.timeout
    THEN JitReturn(e, bm, "Timeout", pc)
    ELSE IF CovHash(from, to) \notin bm
    THEN JitReturn([e EXCEPT !.state.cov_from = from, !.state.cov_to = to],
                   bm \cup {CovHash(from, to)}, "Coverage", pc)
    ELSE JitGoto(e, bm, {})

\* A coverage_event! that reports the edge and leaves its bit clear.
coverage_event_unset(e, bm, pc, from, to) ==
    IF e.state.instrs_execed > e.state.timeout
    THEN JitReturn(e, bm, "Timeout", pc)
    ELSE IF CovHash(from, to) \notin bm
    THEN JitReturn([e EXCEPT !.state.cov_from = from, !.state.cov_to = to],
                   bm, "Coverage", pc)
    ELSE JitGoto(e, bm, {})

\* A coverage_event! whose Coverage exit re-enters at the target of the
\* edge instead of at the instruction that takes it.
coverage_event_skipping(e, bm, pc, from, to) ==
    IF e.state.instrs_execed > e.state.timeout
    THEN JitReturn(e, bm, "Timeout", pc)
    ELSE IF CovHash(from, to) \notin bm
    THEN JitReturn([e EXCEPT !.state.cov_from = from, !.state.cov_to = to],
                   bm \cup {CovHash(from, to)}, "Coverage", to)
    ELSE JitGoto(e, bm, {})

\* coverage_event!($from, $to) in the block of pc: the timeout check,
\* then the test-and-set of the edge's bit.  `ret` when the block returns.
coverage_event(e, bm, pc, from, to) ==
    IF e.state.instrs_execed > e.state.timeout
    THEN JitReturn(e, bm, "Timeout", pc)
    ELSE IF CovHash(from, to) \notin bm
    THEN JitReturn([e EXCEPT !.state.cov_from = from, !.state.cov_to = to],
                   bm \cup {CovHash(from, to)}, "Coverage", pc)
    ELSE JitGoto(e, bm, {})

\* The code emitted for the decoded instruction d at pc, after the
\* counter update and without a breakpoint exit.
JitInst(e, bm, pc, d) ==
    LET next    == wrapping_add(pc, W(4))
        retaddr == wrapping_add(pc, W(4))
        rs1     == JitGetReg(e, d.rs1)
        rs2     == JitGetReg(e, d.rs2)
    IN  CASE d.op = "JAL" ->
                LET target == wrapping_add(pc, d.imm)
                    cov    == coverage_event(e, bm, pc, pc, target)
                    e1     == JitSetReg(e, d.rd, retaddr)
                IN  IF cov.ret THEN cov
                    ELSE IF d.rd = Zero THEN JitGoto(e1, bm, target)
                    ELSE JitReturn(e1, bm, "IndirectBranch", target)
          [] d.op = "JALR" ->
                LET target == wrapping_add(rs1, d.imm)
                    cov    == coverage_event(e, bm, pc, pc, target)
                IN  IF cov.ret THEN cov
                    ELSE JitReturn(JitSetReg(e, d.rd, retaddr), bm,
                                   "IndirectBranch", target)
          [] d.op \in Branches ->
                LET target == wrapping_add(pc, d.imm)
                    covt   == coverage_event(e, bm, pc, pc, target)
                    covf   == coverage_event(e, bm, pc, pc, next)
                IN  IF JitTaken(d.op, rs1, rs2)
                    THEN IF covt.ret THEN covt ELSE JitGoto(e, bm, target)
                    ELSE IF covf.ret THEN covf ELSE JitGoto(e, bm, next)
          [] d.op \in Loads ->
                LET addr == wrapping_add(rs1, d.imm)
                    n    == AccessSize(d.op)
                    v    == FromLeBytes(
                              [k \in 1..n |-> e.memory.memory[N(addr) + k - 1]],
                              1)
                IN  IF JitAccessFails(e, addr, n, PERM_READ)
                    THEN JitReturn(e, bm, "ReadFault", pc)
                    ELSE JitGoto(JitSetReg(e, d.rd,
                                   IF SignedLoad(d.op) THEN SignExt(v, 8 * n)
                                   ELSE v),
                                 bm, next)
          [] d.op \in Stores ->
                LET addr == wrapping_add(rs1, d.imm)
                    n    == AccessSize(d.op)
                IN  IF JitAccessFails(e, addr, n, PERM_WRITE)
                    THEN JitReturn(e, bm, "WriteFault", pc)
                    ELSE JitGoto(JitStore(e, addr, n, rs2), bm, next)
          [] d.op = "FENCE"  -> JitGoto(e, bm, next)
          [] d.op = "ECALL"  -> JitReturn(e, bm, "Ecall", pc)
          [] d.op = "EBREAK" -> JitReturn(e, bm, "Ebreak", pc)
          [] OTHER ->
                JitGoto(JitSetReg(e, d.rd, JitAlu(d, rs1, rs2, pc)), bm, next)

\* state->instrs_execed += 1 at the head of every block.
JitCount(e) == [e EXCEPT !.state.instrs_execed = @ + 1]

\* The labelled block inst_<pc> of unit u, run on emulator e (its
\* GuestState and memory) and coverage bitmap bm: either a return to
\* run_jit (ret) or a goto to another label of the unit.
JitBlock(e, bm, u, pc) ==
    IF pc \in u.bps THEN JitReturn(JitCount(e), bm, "Breakpoint", pc)
    ELSE JitInst(JitCount(e), bm, pc, Decode(u.code[pc]))

----------------------------------------------------------------------------
(* Guest images.  main.rs builds one emulator (new, the loaded segments,   *)
(* add_breakpoint, set_reg(Pc, entry)) and every worker runs a fork of it. *)
(* The images here are small: code at 0 with READ|EXEC, one block of       *)
(* initialised data, one of allocated, never written memory, one the       *)
(* allocator has not handed out and a writable section at the top.         *)

S0 == 8
S1 == 9

addi_x1_x0_5    == <<147, 0, 80, 0>>
addi_x2_x1_m3   == <<19, 129, 208, 255>>
addi_x0_x0_7    == <<19, 0, 112, 0>>
addi_x1_x1_1    == <<147, 128, 16, 0>>
addi_x5_x0_2047 == <<147, 2, 240, 127>>
slti_x3_x0_m1   == <<147, 33, 240, 255>>
slli_bad_mode   == <<147, 146, 2, 4>>
auipc_x9_0      == <<151, 4, 0, 0>>
jal_x0_m4       == <<111, 240, 223, 255>>
jal_x1_4        == <<239, 0, 64, 0>>
jal_x1_8        == <<239, 0, 128, 0>>
jalr_x0_x1      == <<103, 128, 0, 0>>
jalr_x0_x9      == <<103, 128, 4, 0>>
jalr_x1_4_x1    == <<231, 128, 64, 0>>
bne_x1_x0_m4    == <<227, 158, 0, 254>>
bne_x0_x0_8     == <<99, 20, 0, 0>>
sh_x5_0_x8      == <<35, 16, 84, 0>>
sb_x5_1_x8      == <<163, 0, 84, 0>>
lbu_x6_1_x8     == <<3, 67, 20, 0>>
lb_x6_1_x8      == <<3, 3, 20, 0>>
lbu_x6_0_x10    == <<3, 67, 5, 0>>
jal_x1_12       == <<239, 0, 192, 0>>
ecall           == <<115, 0, 0, 0>>
ebreak          == <<115, 0, 16, 0>>
bad_opcode      == <<0, 0, 0, 0>>

NoBp == << >>

\* The guest programs: their instructions from address 0 and, for some,
\* the breakpoint (address, callback) that main.rs would install.
Programs ==
    << [code |-> <<addi_x1_x0_5, addi_x2_x1_m3, ecall, jalr_x0_x1>>,
        bp |-> NoBp],
       [code |-> <<slti_x3_x0_m1, ecall, jalr_x0_x1>>, bp |-> NoBp],
       [code |-> <<addi_x0_x0_7, jal_x0_m4>>, bp |-> NoBp],
       [code |-> <<addi_x1_x1_1, bne_x1_x0_m4, ecall, jalr_x0_x1>>,
        bp |-> NoBp],
       [code |-> <<bne_x0_x0_8, jal_x0_m4, ecall, jalr_x0_x1>>, bp |-> NoBp],
       [code |-> <<auipc_x9_0, jalr_x0_x9>>, bp |-> NoBp],
       [code |-> <<addi_x5_x0_2047, sh_x5_0_x8, ecall, jalr_x0_x1>>,
        bp |-> NoBp],
       [code |-> <<addi_x5_x0_2047, sb_x5_1_x8, lb_x6_1_x8, ecall,
                   jalr_x0_x1>>, bp |-> NoBp],
       [code |-> <<lbu_x6_1_x8, ecall, jalr_x0_x1>>, bp |-> NoBp],
       [code |-> <<ebreak, jalr_x0_x1>>, bp |-> NoBp],
       [code |-> <<bad_opcode, jalr_x0_x1>>, bp |-> NoBp],
       [code |-> <<slli_bad_mode, ecall, jalr_x0_x1>>, bp |-> NoBp],
       [code |-> <<jal_x1_8, ecall, jalr_x0_x1>>,
        bp |-> <<W(8), "free_bp">>],
       [code |-> <<jal_x1_8, ecall, jalr_x0_x1>>,
        bp |-> <<W(8), "end_case">>],
       [code |-> <<jal_x1_4, addi_x1_x1_1, ecall, jalr_x0_x1>>,
        bp |-> <<W(4), "free_bp">>],
       [code |-> <<jal_x1_4, jalr_x1_4_x1, ecall, jalr_x0_x1>>,
        bp |-> NoBp],
       [code |-> <<addi_x1_x0_5, ecall>>, bp |-> NoBp] >>

\* First address of the initialised data block, of the allocation, of
\* the memory the allocator has not handed out and of the section loaded
\* at the top of memory.
DataBase  == 2 * DIRTY_BLOCK_SIZE
AllocBase == 3 * DIRTY_BLOCK_SIZE
HeapBase  == 4 * DIRTY_BLOCK_SIZE
TopBase   == 5 * DIRTY_BLOCK_SIZE

\* The initialised data: the path "testfn", an empty string, and a word
\* and a half-word with the sign bit set.
DataBytes == <<116, 101, 115, 116, 102, 110, 0, 0,
               128, 255, 255, 255, 1, 0, 0, 0>>

\* The emulator main.rs hands to the workers for program p.
Image(p, jit) ==
    LET e0 == EmulatorNew(jit)
        n  == 4 * Len(p.code)
        m  == [e0.memory EXCEPT
                 !.memory = [a \in Addrs |->
                    IF a < n THEN p.code[(a \div 4) + 1][(a % 4) + 1]
                    ELSE IF a >= DataBase /\ a < DataBase + Len(DataBytes)
                    THEN DataBytes[a - DataBase + 1]
                    ELSE 0],
                 !.permissions = [a \in Addrs |->
                    IF a < n THEN PERM_READ + PERM_EXEC
                    ELSE IF a >= DataBase /\ a < AllocBase
                    THEN PERM_READ + PERM_WRITE
                    ELSE IF a >= AllocBase /\ a < HeapBase
                    THEN PERM_WRITE + PERM_RAW
                    ELSE IF a >= TopBase THEN PERM_READ + PERM_WRITE
                    ELSE 0],
                 !.allocations = {<<W(AllocBase), HeapBase - AllocBase>>},
                 !.cur_alc = HeapBase]
        e1 == [e0 EXCEPT !.memory = m]
        e2 == IF p.bp = NoBp THEN e1 ELSE add_breakpoint(e1, p.bp[1], p.bp[2])
    IN  set_reg(set_reg(e2, S0, W(AllocBase - 1)), Pc, W(0))

----------------------------------------------------------------------------
(* Several workers.  main.rs spawns worker threads that share one Corpus   *)
(* (the coverage bitmap, compile_jobs) and one jitcache directory.         *)

\* The files of the inputs directory (corpus.inputs at startup) and the
\* bytes the mutator writes (rng.rand() as u8).
CorpusInputs == {<<1, 2>>, <<3>>}
FuzzBytes == {0, 255}

\* Worker threads (192 in main.rs) and, for each, the coverage events and
\* the calls of compile_jit that are followed; the crashes of all workers
\* that are followed.
NWorkers == 2
MaxEdges == 2
MaxCompiles == 1
MaxCrashes == 2
Workers == 1..NWorkers

\* Content hashes of translation units (corpus.hasher.hash(program)).
NHashes == 2
UnitHashes == 1..NHashes

\* A worker that is running guest code, outside coverage_event! and
\* outside compile_jit.
\* The bytes of a file: who wrote them (0: an earlier run of the program)
\* and how much of them is there.
FileBytes(by, state) == [by |-> by, state |-> state]
NoFile == FileBytes(0, "none")

\* The crash a worker has in hand: the PC and the exit that ended its
\* fuzz case, the key made of them and the fuzz input of the case.
Crash(pc, exit, key, input) ==
    [pc |-> pc, exit |-> exit, key |-> key, input |-> input]
NoCrash == Crash({}, Ok, <<>>, <<>>)

WorkerIdle ==
    [at |-> "run", edge |-> <<>>, word |-> {}, hash |-> 0, first |-> FALSE,
     edges |-> 0, compiles |-> 0, got |-> NoFile, crash |-> NoCrash,
     crashes |-> 0]

\* The jitcache directory with `files` installed, their bytes, the
\* fwetmp_<thread>.bin file of every worker, and how often the compiler
\* was run and a file was installed for each content hash.
JitDirEmpty(files) ==
    [files |-> files,
     content   |-> [h \in UnitHashes |->
                      IF h \in files THEN FileBytes(0, "whole") ELSE NoFile],
     tmp       |-> [w \in Workers |-> NoFile],
     compiled  |-> [h \in UnitHashes |-> 0],
     installed |-> [h \in UnitHashes |-> 0]]

\* Two edges whose bits lie in the same 64-bit word of the coverage
\* bitmap (hash / 64 is equal, hash % 64 differs).
CovEdges == {<<W(0), W(4)>>, <<W(0), W(4334132)>>}

\* state->cov_bitmap[idx] for the word idx = hash / 64 of bit `hash`: the
\* bits of the bitmap that lie in that word.
WordBits(bm, hash) == {b \in bm : b \div 64 = hash \div 64}

\* jobs.insert(proghash) under the lock of compile_jobs, which does not
\* record the hash.
JobsInsertForgetful(jobs, h) == [first |-> h \notin jobs, jobs |-> jobs]

\* jobs.insert(proghash) under the lock of compile_jobs: true when the
\* hash was not in the set.
JobsInsert(jobs, h) == [first |-> h \notin jobs, jobs |-> jobs \cup {h}]

----------------------------------------------------------------------------
(* The state: one worker of main.rs with its emulator, the snapshot it was *)
(* forked from, and what the workers share (corpus, JIT cache).            *)

VARIABLES
    emu,         \* the worker's Emulator
    original,    \* the Emulator it was forked from (Arc<Emulator>)
    corpus,      \* Corpus: coverage_bitmap (set bits) and code_coverage
    jitcache,    \* JitCache: entry PC -> translation unit
    ctl,         \* where the worker is: at, and in native code unit/label
    vmexit,      \* what the last run of this fuzz case returned (Ok: none)
    run_instrs,  \* the worker's counter (*instrs_execed)
    start,       \* the emulator as it was when run was called
    nset,        \* host calls of set_reg so far
    nreset,      \* host calls of reset so far
    workers,     \* the worker threads, where several run at once
    compile_jobs,\* Corpus::compile_jobs: the content hashes in flight
    jitdir,      \* the jitcache directory: the installed files
    stats,       \* the worker's local_stats: crashes, fuzz_cases
    crashdir,    \* the crashes directory: file name -> bytes
    lifting      \* compile_jit's loop: queued, visited, the text so far

\* What only the worker's loop over fuzz cases changes.
driver == <<stats, crashdir>>

\* What the runs of one emulator leave alone.
conc == <<workers, compile_jobs, jitdir, driver, lifting>>

vars == <<emu, original, corpus, jitcache, ctl, vmexit, run_instrs, start,
          nset, nreset, workers, compile_jobs, jitdir, stats, crashdir,
          lifting>>

\* Statistics::default() and an empty crashes directory.
StatsDefault == [crashes |-> 0, fuzz_cases |-> 0]
\* compile_jit before its loop: the queue holds the entry pc, nothing is
\* visited, the text has no block and no goto.
LiftStart(entry) ==
    [at |-> "loop", entry |-> entry, queued |-> entry, visited |-> {},
     unit |-> [code |-> << >>, bps |-> {}], gotos |-> {}, err |-> Ok]
NotLifting == LiftStart(<< >>)

DriverInit ==
    /\ stats = StatsDefault
    /\ crashdir = << >>
    /\ lifting = NotLifting

\* The Corpus main.rs builds: no coverage, no crash, the inputs of the
\* inputs directory.
CorpusNew ==
    [coverage_bitmap |-> {}, code_coverage |-> {}, inputs |-> CorpusInputs,
     unique_crashes |-> {}]

At(a) == [at |-> a, unit |-> {}, label |-> {}]

Init ==
    /\ \E i \in 1..Len(Programs), jit \in BOOLEAN :
          /\ original = Image(Programs[i], jit)
          /\ emu = fork(Image(Programs[i], jit))
          /\ start = fork(Image(Programs[i], jit))
    /\ corpus = CorpusNew
    /\ jitcache = << >>
    /\ ctl = At("host")
    /\ vmexit = Ok
    /\ run_instrs = 0
    /\ nset = 0
    /\ nreset = 0
    /\ workers = [w \in Workers |-> WorkerIdle]
    /\ compile_jobs = {}
    /\ jitdir = JitDirEmpty({})
    /\ DriverInit

\* The values the host passes to set_reg: a write to x0, entry points that
\* are misaligned, outside memory, in data, at the top of the address
\* space, an argument register of free, and base registers that send the
\* loads and stores of the program to code (no WRITE), to unmapped bytes
\* (no permission), to the last bytes of memory, across its end and
\* across the top of the address space.
HostValues ==
    { <<Zero, W(1)>>,
      <<S0, W(0)>>,
      <<S0, W(DataBase - 2)>>,
      <<S0, W(MemSize - 2)>>,
      <<S0, W(MemSize - 1)>>,
      <<S0, AllOnes>>,
      <<Pc, W(2)>>,
      <<Pc, W(4 * ((MemSize + 3) \div 4))>>,
      <<Pc, W(4 * ((DataBase + 3) \div 4))>>,
      <<Pc, AllOnes \ {0, 1}>>,
      <<A1, W(AllocBase)>>,
      <<A1, W(DataBase)>> }

\* The host writes a register of the emulator before it runs the case.
HostSetReg ==
    /\ ctl.at = "host"
    /\ vmexit = Ok
    /\ nset < MaxSetReg
    /\ \E hv \in HostValues : emu' = set_reg(emu, hv[1], hv[2])
    /\ nset' = nset + 1
    /\ UNCHANGED <<original, corpus, jitcache, ctl, vmexit, run_instrs,
                   start, nreset>>
    /\ UNCHANGED conc

\* worker: emu.reset(&*original) and a fresh counter for the next case.
HostReset ==
    /\ ctl.at = "host"
    /\ nreset < MaxReset
    /\ emu' = [reset(emu, original) EXCEPT !.fuzz_input = << >>]
    /\ run_instrs' = 0
    /\ vmexit' = Ok
    /\ nreset' = nreset + 1
    /\ UNCHANGED <<original, corpus, jitcache, ctl, start, nset>>
    /\ UNCHANGED conc

\* Emulator::run: run_jit with a JIT cache, run_emu without.
Run ==
    /\ ctl.at = "host"
    /\ vmexit = Ok
    /\ ctl' = At(IF emu.jit_cache THEN "jit_enter" ELSE "emu")
    /\ start' = emu
    /\ UNCHANGED <<emu, original, corpus, jitcache, vmexit, run_instrs,
                   nset, nreset>>
    /\ UNCHANGED conc

\* Where a function that returns x leaves the worker: a panic aborts it.
Returned(x) == At(IF x.kind = "PANIC" THEN "aborted" ELSE "host")

\* One iteration of run_emu's loop.  Without a JIT the counter is followed
\* up to Timeout + MaxOverrun.
RunEmu ==
    /\ ctl.at = "emu"
    /\ emu.jit_cache \/ run_instrs < Timeout + MaxOverrun
    /\ \E r \in {run_emu_iter(emu, run_instrs)} :
           /\ emu' = r.emu
           /\ run_instrs' = r.instrs
           /\ IF r.exit.kind = "Ok"
              THEN UNCHANGED <<ctl, vmexit>>
              ELSE ctl' = Returned(r.exit) /\ vmexit' = r.exit
    /\ UNCHANGED <<original, corpus, jitcache, start, nset, nreset>>
    /\ UNCHANGED conc

\* JitCache::lookup and JitCache::add_mapping
lookup(cache, pc) == pc \in DOMAIN cache
add_mapping(cache, pc, unit) ==
    [x \in (DOMAIN cache) \cup {pc} |-> IF x = pc THEN unit ELSE cache[x]]

\* run_jit, from the top of its loop to the call of the native code: the
\* lookup of PC (on a miss compile_jit and add_mapping; its Err or panic
\* ends the run) and the publication of the counter and the dirty index.
RunJitEnter ==
    /\ ctl.at = "jit_enter"
    /\ \E pc \in {reg(emu, Pc)} :
         IF lookup(jitcache, pc)
         THEN /\ emu' = [emu EXCEPT
                           !.state.instrs_execed = run_instrs,
                           !.state.dirty_idx = dirty_len(emu.memory)]
              /\ ctl' = [at |-> "native", unit |-> pc, label |-> pc]
              /\ UNCHANGED <<jitcache, vmexit>>
         ELSE \E c \in {compile_jit(emu, pc)} :
                IF c.err.kind # "Ok"
                THEN /\ ctl' = Returned(c.err)
                     /\ vmexit' = c.err
                     /\ UNCHANGED <<emu, jitcache>>
                ELSE /\ jitcache' = add_mapping(jitcache, pc, c.unit)
                     /\ emu' = [emu EXCEPT
                                  !.state.instrs_execed = run_instrs,
                                  !.state.dirty_idx = dirty_len(emu.memory)]
                     /\ ctl' = [at |-> "native", unit |-> pc, label |-> pc]
                     /\ UNCHANGED vmexit
    /\ UNCHANGED <<original, corpus, run_instrs, start, nset, nreset>>
    /\ UNCHANGED conc

\* Native code: one labelled block of the unit.  A goto stays in the unit;
\* a return with IndirectBranch whose target is in the cache re-enters at
\* once ('quick_reenter); any other return goes back to run_jit.
JitNative ==
    /\ ctl.at = "native"
    /\ \E r \in {JitBlock(emu, corpus.coverage_bitmap, jitcache[ctl.unit],
                          ctl.label)} :
           /\ emu' = r.emu
           /\ corpus' = [corpus EXCEPT !.coverage_bitmap = r.bm]
           /\ ctl' = IF ~r.ret THEN [ctl EXCEPT !.label = r.goto]
                     ELSE IF r.emu.state.exit_reason = "IndirectBranch"
                             /\ lookup(jitcache, r.emu.state.reenter_pc)
                     THEN [at |-> "native",
                           unit |-> r.emu.state.reenter_pc,
                           label |-> r.emu.state.reenter_pc]
                     ELSE At("jit_exit")
    /\ UNCHANGED <<original, jitcache, vmexit, run_instrs, start, nset,
                   nreset>>
    /\ UNCHANGED conc

\* The VmExit that run_jit returns for an exit_reason of the native code.
ExitOf(reason) ==
    CASE reason = "Ebreak" -> "Ebreak"
      [] reason = "Ecall" -> "Syscall"
      [] reason = "Timeout" -> "Timeout"
      [] reason = "InvalidOpcode" -> "InvalidOpcode"

\* run_jit after the native code returned: the read-back of the counter,
\* set_reg(Pc, reenter_pc), set_dirty_len, and the match on exit_reason.
RunJitExit ==
    /\ ctl.at = "jit_exit"
    /\ run_instrs' = emu.state.instrs_execed
    /\ \E s \in {emu.state} :
       \E e2 \in {[set_reg(emu, Pc, s.reenter_pc) EXCEPT
                     !.memory = set_dirty_len(@, s.dirty_idx)]} :
         CASE s.exit_reason = "None" ->
                /\ emu' = e2
                /\ ctl' = At("aborted")
                /\ vmexit' = Panic("unreachable")
                /\ UNCHANGED corpus
           [] s.exit_reason = "Coverage" ->
                /\ emu' = e2
                /\ ctl' = At("jit_enter")
                /\ corpus' = [corpus EXCEPT !.code_coverage =
                                 @ \cup {<<s.cov_from, s.cov_to>>}]
                /\ UNCHANGED vmexit
           [] s.exit_reason = "IndirectBranch" ->
                /\ emu' = e2
                /\ ctl' = At("jit_enter")
                /\ UNCHANGED <<vmexit, corpus>>
           [] s.exit_reason \in {"Ebreak", "Ecall", "Timeout",
                                 "InvalidOpcode"} ->
                /\ emu' = e2
                /\ ctl' = At("host")
                /\ vmexit' = VmExit(ExitOf(s.exit_reason))
                /\ UNCHANGED corpus
           [] s.exit_reason \in {"ReadFault", "WriteFault"} ->
                /\ emu' = e2
                /\ ctl' = At("emu")
                /\ UNCHANGED <<vmexit, corpus>>
           [] s.exit_reason = "Breakpoint" ->
                \E cb \in {IF s.reenter_pc \in DOMAIN e2.breakpoints
                           THEN Callback(e2.breakpoints[s.reenter_pc], e2)
                           ELSE [emu |-> e2, err |-> Ok]} :
                  /\ emu' = cb.emu
                  /\ UNCHANGED corpus
                  /\ IF cb.err.kind # "Ok"
                     THEN ctl' = Returned(cb.err) /\ vmexit' = cb.err
                     ELSE IF reg(cb.emu, Pc) = s.reenter_pc
                     THEN ctl' = At("aborted") /\ vmexit' = Panic("WAT")
                     ELSE ctl' = At("jit_enter") /\ UNCHANGED vmexit
    /\ UNCHANGED <<original, jitcache, start, nset, nreset>>
    /\ UNCHANGED conc

Next ==
    \/ HostSetReg
    \/ HostReset
    \/ Run
    \/ RunEmu
    \/ RunJitEnter
    \/ JitNative
    \/ RunJitExit

Spec == Init /\ [][Next]_vars

\* A step of run, and the states in which run can take one: it has been
\* called and has neither returned nor aborted (and the interpreter's
\* counter is still followed).
RunStep == RunEmu \/ RunJitEnter \/ JitNative \/ RunJitExit
Running ==
    \/ ctl.at \in {"jit_enter", "native", "jit_exit"}
    \/ ctl.at = "emu" /\ (emu.jit_cache \/ run_instrs < Timeout + MaxOverrun)

\* The worker thread runs: a run that can take a step takes it.  This is
\* weak fairness of RunStep, WF_vars(RunStep), with ENABLED <<RunStep>>_vars
\* written out as the state predicate Running.
FairSpec == Spec /\ ([]<>~Running \/ []<><<RunStep>>_vars)

----------------------------------------------------------------------------
(* Guest images of one arithmetic or load instruction, for every operand   *)
(* of a small set: x3 := x1 op x2 (or x1 op imm), x6 := load 0(x8).        *)

AluInsts ==
    << <<187, 129, 32, 0>>,    \* addw  x3, x1, x2
       <<187, 129, 32, 64>>,   \* subw  x3, x1, x2
       <<187, 145, 32, 0>>,    \* sllw  x3, x1, x2
       <<187, 209, 32, 0>>,    \* srlw  x3, x1, x2
       <<187, 209, 32, 64>>,   \* sraw  x3, x1, x2
       <<179, 145, 32, 0>>,    \* sll   x3, x1, x2
       <<179, 209, 32, 0>>,    \* srl   x3, x1, x2
       <<179, 209, 32, 64>>,   \* sra   x3, x1, x2
       <<147, 209, 16, 66>>,   \* srai  x3, x1, 33
       <<155, 129, 240, 255>>, \* addiw x3, x1, -1
       <<155, 145, 240, 1>>,   \* slliw x3, x1, 31
       <<155, 209, 16, 0>>,    \* srliw x3, x1, 1
       <<155, 209, 16, 64>>,   \* sraiw x3, x1, 1
       <<3, 3, 4, 0>>,         \* lb    x6, 0(x8)
       <<3, 19, 4, 0>>,        \* lh    x6, 0(x8)
       <<3, 35, 4, 0>>,        \* lw    x6, 0(x8)
       <<3, 67, 4, 0>>,        \* lbu   x6, 0(x8)
       <<3, 83, 4, 0>>,        \* lhu   x6, 0(x8)
       <<3, 99, 4, 0>> >>      \* lwu   x6, 0(x8)

\* First operands: small, negative, the 32-bit sign bit alone, and a value
\* whose bits 32..63 differ from the sign of its low word.
AluLeft == {W(5), AllOnes, {31}, {0, 31, 40}, {3, 30, 63}}

\* Second operands: shift amounts with and without bits above the low 5
\* and the low 6, and an addend that carries out of the low word.
AluRight == {W(1), W(33), W(95) \cup {63}, {0, 31}}

\* The golden emulator of instruction i with x1 = a, x2 = b and x8 = s.
AluImage(i, a, b, s, jit) ==
    set_reg(set_reg(set_reg(
        Image([code |-> <<AluInsts[i], ecall, jalr_x0_x1>>, bp |-> NoBp], jit),
        Ra, a), 2, b), S0, s)

\* The instructions with the operands they are run on: the arithmetic on
\* every pair of operands, the loads on a positive and on a negative value.
AluCases ==
    {<<i, a, b, W(DataBase)>> : i \in 1..13, a \in AluLeft, b \in AluRight}
        \cup {<<i, W(5), W(1), s>> :
                 i \in 14..Len(AluInsts), s \in {W(DataBase), W(DataBase + 8)}}

AluInit ==
    /\ \E c \in AluCases, jit \in BOOLEAN :
          /\ original = AluImage(c[1], c[2], c[3], c[4], jit)
          /\ emu = fork(AluImage(c[1], c[2], c[3], c[4], jit))
          /\ start = fork(AluImage(c[1], c[2], c[3], c[4], jit))
    /\ corpus = CorpusNew
    /\ jitcache = << >>
    /\ ctl = At("host")
    /\ vmexit = Ok
    /\ run_instrs = 0
    /\ nset = 0
    /\ nreset = 0
    /\ workers = [w \in Workers |-> WorkerIdle]
    /\ compile_jobs = {}
    /\ jitdir = JitDirEmpty({})
    /\ DriverInit

\* One call of run on each image.
AluNext ==
    \/ Run
    \/ RunEmu
    \/ RunJitEnter
    \/ JitNative
    \/ RunJitExit

AluSpec == AluInit /\ [][AluNext]_vars

----------------------------------------------------------------------------
(* A host that registers a callback between two runs.  main.rs registers   *)
(* its callbacks before it forks the workers; add_breakpoint is public and *)
(* takes &mut self at any time.                                            *)

\* The callback that is registered late, and where.
LateBreakpoint == <<W(4), "end_case">>

\* Emulator::add_breakpoint, called on the worker's emulator before a run.
HostAddBreakpoint ==
    /\ ctl.at = "host"
    /\ vmexit = Ok
    /\ LateBreakpoint[1] \notin DOMAIN emu.breakpoints
    /\ emu' = add_breakpoint(emu, LateBreakpoint[1], LateBreakpoint[2])
    /\ UNCHANGED <<original, corpus, jitcache, ctl, vmexit, run_instrs,
                   start, nset, nreset>>
    /\ UNCHANGED conc

LateBpNext ==
    \/ Next
    \/ HostAddBreakpoint

LateBpSpec == Init /\ [][LateBpNext]_vars

----------------------------------------------------------------------------
(* The worker's loop over fuzz cases (main.rs, fn worker): reset, a        *)
(* mutated input, run until an exit that is not a serviced Syscall, the    *)
(* crash record.                                                           *)

\* Fuzz cases followed.
MaxCases == 2

addi_a7_x0_93   == <<147, 8, 208, 5>>
addi_a7_x0_57   == <<147, 8, 144, 3>>
addi_a7_x0_1024 == <<147, 8, 0, 64>>
addi_a0_x9_0    == <<19, 133, 4, 0>>

\* Guest programs that call the host: the code, and the registers their
\* loader has set.  open("testfn") and exit; open twice; close(0), then
\* open; open of "estfn"; open of the empty path; a path in unmapped
\* memory; a path in memory never written; open with flags; the crashes,
\* traps and loops of Programs, with loads beyond memory at a small, a
\* negative and a large address; free and realloc of an unknown address,
\* of an interior pointer, of a live base, of 0, a double free, a free
\* that is followed by a store to another block; calloc of 2 * 4 bytes,
\* of 2^63 * 2 bytes and of more blocks than memory has and malloc of 8
\* bytes, each followed by a load from the address returned; and a loop
\* around a close.
CasePrograms ==
    << [code |-> <<ecall, addi_a7_x0_93, ecall, jalr_x0_x1>>, bp |-> NoBp,
        regs |-> <<<<A7, W(1024)>>, <<A0, W(DataBase)>>>>],
       [code |-> <<ecall, addi_a0_x9_0, ecall, jalr_x0_x1>>, bp |-> NoBp,
        regs |-> <<<<A7, W(1024)>>, <<A0, W(DataBase)>>,
                   <<S1, W(DataBase)>>>>],
       [code |-> <<ecall, addi_a7_x0_1024, addi_a0_x9_0, ecall,
                   jalr_x0_x1>>, bp |-> NoBp,
        regs |-> <<<<A7, W(57)>>, <<S1, W(DataBase)>>>>],
       [code |-> <<ecall, addi_a7_x0_93, ecall, jalr_x0_x1>>, bp |-> NoBp,
        regs |-> <<<<A7, W(1024)>>, <<A0, W(DataBase + 1)>>>>],
       [code |-> <<ecall, addi_a7_x0_93, ecall, jalr_x0_x1>>, bp |-> NoBp,
        regs |-> <<<<A7, W(1024)>>, <<A0, W(DataBase + 6)>>>>],
       [code |-> <<ecall, addi_a7_x0_93, ecall, jalr_x0_x1>>, bp |-> NoBp,
        regs |-> <<<<A7, W(1024)>>, <<A0, W(DataBase - 1)>>>>],
       [code |-> <<ecall, addi_a7_x0_93, ecall, jalr_x0_x1>>, bp |-> NoBp,
        regs |-> <<<<A7, W(1024)>>, <<A0, W(AllocBase)>>>>],
       [code |-> <<ecall, addi_a7_x0_93, ecall, jalr_x0_x1>>, bp |-> NoBp,
        regs |-> <<<<A7, W(1024)>>, <<A0, W(DataBase)>>, <<A1, W(1)>>>>],
       [code |-> Programs[3].code, bp |-> NoBp, regs |-> <<>>],
       [code |-> Programs[7].code, bp |-> NoBp,
        regs |-> <<<<S0, W(0)>>>>],
       [code |-> Programs[9].code, bp |-> NoBp, regs |-> <<>>],
       [code |-> Programs[9].code, bp |-> NoBp,
        regs |-> <<<<S0, W(MemSize - 1)>>>>],
       [code |-> Programs[9].code, bp |-> NoBp,
        regs |-> <<<<S0, AllOnes \ {0, 1}>>>>],
       [code |-> Programs[9].code, bp |-> NoBp,
        regs |-> <<<<S0, W(32767)>>>>],
       [code |-> Programs[10].code, bp |-> NoBp, regs |-> <<>>],
       [code |-> Programs[11].code, bp |-> NoBp, regs |-> <<>>],
       [code |-> Programs[13].code, bp |-> Programs[13].bp,
        regs |-> <<<<A1, W(DataBase)>>>>],
       [code |-> Programs[13].code, bp |-> Programs[13].bp,
        regs |-> <<<<A1, W(AllocBase)>>>>],
       [code |-> Programs[13].code, bp |-> Programs[13].bp,
        regs |-> <<<<A1, W(AllocBase + 1)>>>>],
       [code |-> Programs[13].code, bp |-> Programs[13].bp,
        regs |-> <<<<A7, W(93)>>>>],
       [code |-> <<jal_x1_8, jal_x1_4, ecall, jalr_x0_x1>>,
        bp |-> <<W(8), "free_bp">>,
        regs |-> <<<<A1, W(AllocBase)>>, <<A7, W(93)>>>>],
       [code |-> Programs[13].code, bp |-> <<W(8), "realloc_bp">>,
        regs |-> <<<<A1, W(DataBase)>>, <<A2, W(8)>>>>],
       [code |-> Programs[13].code, bp |-> <<W(8), "realloc_bp">>,
        regs |-> <<<<A1, W(AllocBase + 1)>>, <<A2, W(8)>>>>],
       [code |-> Programs[13].code, bp |-> <<W(8), "realloc_bp">>,
        regs |-> <<<<A1, W(AllocBase)>>, <<A2, W(4)>>, <<A7, W(93)>>>>],
       [code |-> Programs[13].code, bp |-> <<W(8), "realloc_bp">>,
        regs |-> <<<<A2, W(4)>>, <<A7, W(93)>>>>],
       [code |-> Programs[14].code, bp |-> Programs[14].bp, regs |-> <<>>],
       [code |-> Programs[17].code, bp |-> NoBp,
        regs |-> <<<<A7, W(93)>>>>],
       [code |-> <<jal_x1_8, sb_x5_1_x8, ecall, jalr_x0_x1>>,
        bp |-> <<W(8), "free_bp">>,
        regs |-> <<<<A1, W(AllocBase)>>, <<S0, W(DataBase - 1)>>>>],
       [code |-> <<jal_x1_12, lbu_x6_0_x10, ecall, jalr_x0_x1>>,
        bp |-> <<W(12), "calloc_bp">>,
        regs |-> <<<<A1, W(2)>>, <<A2, W(4)>>, <<A7, W(93)>>>>],
       [code |-> <<jal_x1_12, lbu_x6_0_x10, ecall, jalr_x0_x1>>,
        bp |-> <<W(12), "calloc_bp">>,
        regs |-> <<<<A1, {63}>>, <<A2, W(2)>>, <<A7, W(93)>>>>],
       [code |-> <<jal_x1_12, lbu_x6_0_x10, ecall, jalr_x0_x1>>,
        bp |-> <<W(12), "calloc_bp">>,
        regs |-> <<<<A1, W(3)>>, <<A2, W(DIRTY_BLOCK_SIZE)>>,
                   <<A7, W(93)>>>>],
       [code |-> <<jal_x1_12, lbu_x6_0_x10, ecall, jalr_x0_x1>>,
        bp |-> <<W(12), "malloc_bp">>,
        regs |-> <<<<A1, W(8)>>, <<A7, W(93)>>>>],
       [code |-> <<ecall, jal_x0_m4>>, bp |-> NoBp,
        regs |-> <<<<A7, W(57)>>>>] >>

RECURSIVE SetRegs(_, _, _)
\* emu.set_reg for each register of regs, from the i-th on.
SetRegs(e, regs, i) ==
    IF i > Len(regs) THEN e
    ELSE SetRegs(set_reg(e, regs[i][1], regs[i][2]), regs, i + 1)

\* The emulator main.rs hands to the workers for program p of CasePrograms.
CaseImage(p, jit) == SetRegs(Image(p, jit), p.regs, 1)

\* An AddressType whose Null range takes 32768 in.
AddressTypeFromInclusive(val) ==
    IF ~LtS(val, W(0)) /\ ~LtS(W(32768), val) THEN "Null"
    ELSE IF ~LtS(val, wrapping_sub({}, W(32768))) /\ ~LtS(AllOnes, val)
    THEN "Negative"
    ELSE "Normal"

\* impl From<VirtAddr> for AddressType: the match on val.0 as i64.
AddressTypeFrom(val) ==
    IF ~LtS(val, W(0)) /\ ~LtS(W(32767), val) THEN "Null"
    ELSE IF ~LtS(val, wrapping_sub({}, W(32768))) /\ ~LtS(AllOnes, val)
    THEN "Negative"
    ELSE "Normal"

\* The key of a crash: (pc, fault_type, AddressType::from(vaddr)).
CrashKey(pc, crash) == <<pc, crash.fault, AddressTypeFrom(crash.addr)>>

\* "crashes/{:#x}_{:?}_{:?}.crash": the name has the three parts of the
\* key, the first in hexadecimal (its bits).
CrashFileName(key) == <<"crashes", key[1], key[2], key[3], ".crash">>

\* The inputs the mutator can make of input: a byte stays or becomes any
\* byte.
Mutated(input) ==
    {f \in [1..Len(input) -> FuzzBytes \cup {input[i] : i \in 1..Len(input)}] :
        \A i \in 1..Len(input) : f[i] = input[i] \/ f[i] \in FuzzBytes}

\* std::fs::write(name, bytes)
FsWrite(dir, name, bytes) ==
    [x \in (DOMAIN dir) \cup {name} |-> IF x = name THEN bytes ELSE dir[x]]

CaseInit ==
    /\ \E i \in 1..Len(CasePrograms), jit \in BOOLEAN :
          /\ original = CaseImage(CasePrograms[i], jit)
          /\ emu = fork(CaseImage(CasePrograms[i], jit))
          /\ start = fork(CaseImage(CasePrograms[i], jit))
    /\ corpus = CorpusNew
    /\ jitcache = << >>
    /\ ctl = At("reset")
    /\ vmexit = Ok
    /\ run_instrs = 0
    /\ nset = 0
    /\ nreset = 0
    /\ workers = [w \in Workers |-> WorkerIdle]
    /\ compile_jobs = {}
    /\ jitdir = JitDirEmpty({})
    /\ DriverInit

\* emu.reset(&*original); let mut run_instrs = 0u64;
CaseReset ==
    /\ ctl.at = "reset"
    /\ nreset < MaxCases
    /\ emu' = reset(emu, original)
    /\ run_instrs' = 0
    /\ nreset' = nreset + 1
    /\ ctl' = At("input")
    /\ UNCHANGED <<original, corpus, jitcache, vmexit, start, nset>>
    /\ UNCHANGED conc

\* emu.fuzz_input.clear(); an input of the corpus is copied and mutated.
CaseInput ==
    /\ ctl.at = "input"
    /\ \E input \in corpus.inputs : \E f \in Mutated(input) :
          emu' = [emu EXCEPT !.fuzz_input = f]
    /\ vmexit' = Ok
    /\ ctl' = At("host")
    /\ UNCHANGED <<original, corpus, jitcache, run_instrs, start, nset,
                   nreset>>
    /\ UNCHANGED conc

\* A worker that runs again at the ECALL.
advance_pc_not(e) == e

\* let pc = emu.reg(Register::Pc); emu.set_reg(Register::Pc,
\* pc.wrapping_add(4));
advance_pc(e) == set_reg(e, Pc, wrapping_add(reg(e, Pc), W(4)))

\* VmExit::Syscall => handle_syscall; Ok: PC advances and the loop runs
\* again; Err: the loop breaks with that exit.
CaseSyscall ==
    /\ ctl.at = "host"
    /\ vmexit.kind = "Syscall"
    /\ \E r \in {handle_syscall(emu)} :
          IF r.err.kind = "Ok"
          THEN /\ emu' = advance_pc(r.emu)
               /\ vmexit' = Ok
               /\ UNCHANGED ctl
          ELSE /\ emu' = r.emu
               /\ vmexit' = r.err
               /\ ctl' = Returned(r.err)
    /\ UNCHANGED <<original, corpus, jitcache, run_instrs, start, nset,
                   nreset>>
    /\ UNCHANGED conc

\* The exit that broke the loop: if it is a crash, the crash is counted
\* and unique_crashes.entry_or_insert saves the input of a new key; the
\* case is counted.
CaseEnd ==
    /\ ctl.at = "host"
    /\ vmexit.kind \notin {"Ok", "Syscall"}
    /\ \E crash \in {is_crash(vmexit)} :
       \E key \in {CrashKey(reg(emu, Pc), crash)} :
          /\ stats' = [stats EXCEPT
                         !.crashes = IF crash.some THEN @ + 1 ELSE @,
                         !.fuzz_cases = @ + 1]
          /\ IF crash.some /\ key \notin corpus.unique_crashes
             THEN /\ corpus' = [corpus EXCEPT
                                  !.unique_crashes = @ \cup {key},
                                  !.inputs = @ \cup {emu.fuzz_input}]
                  /\ crashdir' = FsWrite(crashdir, CrashFileName(key),
                                         emu.fuzz_input)
             ELSE UNCHANGED <<corpus, crashdir>>
    /\ ctl' = At("reset")
    /\ UNCHANGED <<emu, original, jitcache, vmexit, run_instrs, start, nset,
                   nreset>>
    /\ UNCHANGED <<workers, compile_jobs, jitdir, lifting>>

CaseNext ==
    \/ CaseReset
    \/ CaseInput
    \/ Run
    \/ RunEmu
    \/ RunJitEnter
    \/ JitNative
    \/ RunJitExit
    \/ CaseSyscall
    \/ CaseEnd

CaseSpec == CaseInit /\ [][CaseNext]_vars

----------------------------------------------------------------------------
(* Several workers in coverage_event!.  The emitted code tests the bit of  *)
(* the edge in the shared bitmap and, when it is clear, sets it with a     *)
(* plain `|=` on the 64-bit word: a load and a store that other workers'   *)
(* loads and stores may come between.                                      *)

\* The one worker's variables, which these specifications leave alone.
solo == <<emu, original, jitcache, ctl, vmexit, run_instrs, start, nset,
          nreset, driver, lifting>>

\* The workers are forks of the JIT emulator of the example program.
SoloInit ==
    /\ original = Image(Programs[1], TRUE)
    /\ emu = fork(Image(Programs[1], TRUE))
    /\ start = fork(Image(Programs[1], TRUE))
    /\ jitcache = << >>
    /\ ctl = At("host")
    /\ vmexit = Ok
    /\ run_instrs = 0
    /\ nset = 0
    /\ nreset = 0

CovInit ==
    /\ SoloInit
    /\ corpus = CorpusNew
    /\ workers = [w \in Workers |-> WorkerIdle]
    /\ compile_jobs = {}
    /\ jitdir = JitDirEmpty({})
    /\ DriverInit

\* The bit of the edge a worker has in hand.
EdgeBit(w) == CovHash(workers[w].edge[1], workers[w].edge[2])

\* if ((state->cov_bitmap[idx] & bit) == 0): the worker comes to an edge
\* and tests its bit; with the bit set it falls through.
CovTest(w) ==
    /\ workers[w].at = "run"
    /\ workers[w].edges < MaxEdges
    /\ \E edge \in CovEdges :
          workers' = [workers EXCEPT ![w] =
              IF CovHash(edge[1], edge[2]) \in corpus.coverage_bitmap
              THEN [@ EXCEPT !.edges = @ + 1]
              ELSE [@ EXCEPT !.at = "set", !.edge = edge]]
    /\ UNCHANGED <<corpus, compile_jobs, jitdir, solo>>

\* state->cov_bitmap[idx] |= bit, first half: the word is loaded.
CovLoad(w) ==
    /\ workers[w].at = "set"
    /\ workers' = [workers EXCEPT ![w] =
          [@ EXCEPT !.at = "store",
                    !.word = WordBits(corpus.coverage_bitmap, EdgeBit(w))]]
    /\ UNCHANGED <<corpus, compile_jobs, jitdir, solo>>

\* state->cov_bitmap[idx] |= bit, second half: the loaded word with the
\* bit set is stored; then the block returns Coverage.
CovStore(w) ==
    /\ workers[w].at = "store"
    /\ corpus' = [corpus EXCEPT !.coverage_bitmap =
          (@ \ WordBits(@, EdgeBit(w)))
             \cup workers[w].word \cup {EdgeBit(w)}]
    /\ workers' = [workers EXCEPT ![w] = [@ EXCEPT !.at = "exit"]]
    /\ UNCHANGED <<compile_jobs, jitdir, solo>>

\* run_jit, ExitReason::Coverage: the edge enters code_coverage and the
\* worker goes back to translated code.
CovReport(w) ==
    /\ workers[w].at = "exit"
    /\ corpus' = [corpus EXCEPT !.code_coverage = @ \cup {workers[w].edge}]
    /\ workers' = [workers EXCEPT ![w] =
          [@ EXCEPT !.at = "run", !.edges = @ + 1]]
    /\ UNCHANGED <<compile_jobs, jitdir, solo>>

CovNext ==
    \E w \in Workers :
        \/ CovTest(w)
        \/ CovLoad(w)
        \/ CovStore(w)
        \/ CovReport(w)

CovSpec == CovInit /\ [][CovNext]_vars

----------------------------------------------------------------------------
(* Several workers at the end of compile_jit: the unit's text is hashed    *)
(* and either read from jitcache/<hash> or compiled and installed there.   *)

\* The jitcache directory outlives the process: files of earlier runs may
\* be there.
CompileInit ==
    /\ SoloInit
    /\ corpus = CorpusNew
    /\ workers = [w \in Workers |-> WorkerIdle]
    /\ compile_jobs = {}
    /\ \E files \in SUBSET UnitHashes : jitdir = JitDirEmpty(files)
    /\ DriverInit

\* let first = { jobs.lock(); jobs.insert(proghash) }: the worker has
\* lifted a unit with content hash h.
CompileBegin(w) ==
    /\ workers[w].at = "run"
    /\ workers[w].compiles < MaxCompiles
    /\ \E h \in UnitHashes :
       \E r \in {JobsInsert(compile_jobs, h)} :
          /\ compile_jobs' = r.jobs
          /\ workers' = [workers EXCEPT ![w] =
                [@ EXCEPT !.at = IF r.first THEN "check" ELSE "wait",
                          !.hash = h, !.first = r.first]]
    /\ UNCHANGED <<corpus, jitdir, solo>>

\* if !first { while !cachename.exists() { sleep } }: the loop is left
\* once the file is there.
CompileWait(w) ==
    /\ workers[w].at = "wait"
    /\ workers[w].hash \in jitdir.files
    /\ workers' = [workers EXCEPT ![w] = [@ EXCEPT !.at = "check"]]
    /\ UNCHANGED <<corpus, compile_jobs, jitdir, solo>>

\* if cachename.exists() { return Ok(read) }, else go on to compile.
CompileCheck(w) ==
    /\ workers[w].at = "check"
    /\ workers' = [workers EXCEPT ![w] =
          [@ EXCEPT !.at = IF workers[w].hash \in jitdir.files
                           THEN "read" ELSE "clang"]]
    /\ UNCHANGED <<corpus, compile_jobs, jitdir, solo>>

\* Command::new("clang++") ... .status() into the thread's own linkfn;
\* assert!(res.success()) panics the thread when the compiler fails.
CompileClang(w) ==
    /\ workers[w].at = "clang"
    /\ jitdir' = [jitdir EXCEPT !.compiled[workers[w].hash] = @ + 1]
    /\ \E success \in BOOLEAN :
          workers' = [workers EXCEPT ![w] =
              [@ EXCEPT !.at = IF success THEN "objcopy" ELSE "panicked"]]
    /\ UNCHANGED <<corpus, compile_jobs, solo>>

\* Command::new("objcopy") writes the thread's own binfn, first a part of
\* it and then the whole; assert!(res.success()) as above.
CompileObjcopy(w) ==
    /\ workers[w].at = "objcopy"
    /\ IF jitdir.tmp[w].state = "none"
       THEN /\ jitdir' = [jitdir EXCEPT !.tmp[w] = FileBytes(w, "partial")]
            /\ UNCHANGED workers
       ELSE \E success \in BOOLEAN :
              /\ jitdir' = [jitdir EXCEPT !.tmp[w] =
                               IF success THEN FileBytes(w, "whole") ELSE @]
              /\ workers' = [workers EXCEPT ![w] =
                    [@ EXCEPT !.at = IF success THEN "rename"
                                     ELSE "panicked"]]
    /\ UNCHANGED <<corpus, compile_jobs, solo>>

\* std::fs::rename(&binfn, &cachename): the file appears under its cache
\* name with the bytes binfn has.
CompileRename(w) ==
    /\ workers[w].at = "rename"
    /\ jitdir' = [jitdir EXCEPT
                     !.files = @ \cup {workers[w].hash},
                     !.content[workers[w].hash] = jitdir.tmp[w],
                     !.tmp[w] = NoFile,
                     !.installed[workers[w].hash] = @ + 1]
    /\ workers' = [workers EXCEPT ![w] = [@ EXCEPT !.at = "read"]]
    /\ UNCHANGED <<corpus, compile_jobs, solo>>

\* std::fs::read(&cachename): compile_jit returns the bytes.
CompileRead(w) ==
    /\ workers[w].at = "read"
    /\ workers' = [workers EXCEPT ![w] =
          [@ EXCEPT !.at = "run", !.compiles = @ + 1,
                    !.got = jitdir.content[workers[w].hash]]]
    /\ UNCHANGED <<corpus, compile_jobs, jitdir, solo>>

CompileNext ==
    \E w \in Workers :
        \/ CompileBegin(w)
        \/ CompileWait(w)
        \/ CompileCheck(w)
        \/ CompileClang(w)
        \/ CompileObjcopy(w)
        \/ CompileRename(w)
        \/ CompileRead(w)

CompileSpec == CompileInit /\ [][CompileNext]_vars

\* The steps of worker w inside compile_jit.
CompileStep(w) ==
    \/ CompileWait(w)
    \/ CompileCheck(w)
    \/ CompileClang(w)
    \/ CompileObjcopy(w)
    \/ CompileRename(w)
    \/ CompileRead(w)

\* Every worker is a thread of its own that the scheduler keeps running.
FairCompileSpec == CompileSpec /\ \A w \in Workers : WF_vars(CompileStep(w))

----------------------------------------------------------------------------
(* Properties                                                              *)

\* The instruction fetch at the emulator's PC, and what it decodes to.
FetchAtPc == Fetch(emu.memory, reg(emu, Pc))
InstAtPc  == Decode(FetchAtPc.inst)

\* run has returned to the worker, or has aborted it.
RunEnded == ctl.at \in {"host", "aborted"} /\ vmexit # Ok

\* The block that native code is about to run, when it is not a
\* breakpoint exit: its instruction.
InBlock == ctl.at = "native" /\ ctl.label \notin jitcache[ctl.unit].bps
CurInst == Decode(jitcache[ctl.unit].code[ctl.label])

\* The general registers x0..x31 of an emulator.
GeneralRegs(e) == [r \in 0..31 |-> e.state.regs[r]]

\* C1: register x0 is always zero: after any set_reg calls, interpreter
\* and translated instructions (rd = x0 included), fork and reset,
\* reg(Zero) returns 0 and the slot regs[0] holds 0.
C1_ZeroRegister ==
    /\ reg(emu, Zero) = {}
    /\ emu.state.regs[Zero] = {}
    /\ reg(original, Zero) = {}
    /\ original.state.regs[Zero] = {}

\* Translated code has run addi x0, x0, 7 more than once, after a host
\* set_reg and a reset.
C1_Witness ==
    /\ emu.jit_cache
    /\ nset > 0 /\ nreset > 0
    /\ run_instrs > 2
    /\ Fetch(emu.memory, W(0)).inst = FromLeBytes(addi_x0_x0_7, 1)

\* C2: the JIT and the interpreter agree: a run that ends under both (the
\* same breakpoints, the same memory) ends with the same exit, the same 33
\* registers and the same memory image.  The interpreter's run is the one
\* from `start`, the state the run under the JIT began in.
C2_JitAgreesWithInterpreter ==
    (emu.jit_cache /\ ctl.at = "host" /\ vmexit # Ok) =>
        \A r \in {run_emu(start, 0, Timeout + MaxOverrun)} :
            r.exit.kind \notin {"Ok", "PANIC"} =>
                /\ vmexit = r.exit
                /\ emu.state.regs = r.emu.state.regs
                /\ emu.memory.memory = r.emu.memory.memory

\* C3: the reset round trip: after any run of a fork D of the snapshot S
\* (guest stores of any width and alignment, under the interpreter or the
\* JIT) that ends in D.reset(S), D's memory and permissions equal S's
\* byte for byte and D's dirty log is empty.
C3_ResetRoundTrip ==
    (ctl.at = "host" /\ vmexit = Ok /\ nreset > 0) =>
        /\ emu.memory.memory = original.memory.memory
        /\ emu.memory.permissions = original.memory.permissions
        /\ dirty_len(emu.memory) = 0
        /\ emu.memory.dirty_bitmap = {}

\* The translated store that native code is about to run: its address,
\* its width, whether its check passes, and the dirty blocks it touches.
StoreAddr == wrapping_add(JitGetReg(emu, CurInst.rs1), CurInst.imm)
StoreSucceeds ==
    /\ InBlock
    /\ CurInst.op \in Stores
    /\ ~JitAccessFails(emu, StoreAddr, AccessSize(CurInst.op), PERM_WRITE)
StoreBlocks ==
    {(N(StoreAddr) + i) \div DIRTY_BLOCK_SIZE :
        i \in 0..(AccessSize(CurInst.op) - 1)}

\* The blocks in the dirty log of an emulator whose native code runs.
Logged(e) == {e.memory.dirty[i] : i \in 1..e.state.dirty_idx}

\* C4: every successful translated store puts every dirty block it
\* touches into the dirty log (the vector and the bitmap): a store whose
\* bytes lie in two adjacent blocks marks both.
C4_JitStoreMarksEveryBlock ==
    [][StoreSucceeds =>
          /\ StoreBlocks \subseteq Logged(emu')
          /\ StoreBlocks \subseteq emu'.memory.dirty_bitmap]_vars

\* C5: the timeout bounds a run of the interpreter: once the counter
\* exceeds the threshold the run returns Timeout, so run_emu is never at
\* the top of its loop with the counter more than one past the threshold.
C5_InterpreterTimeout ==
    (~emu.jit_cache /\ ctl.at = "emu") =>
        run_instrs <= emu.state.timeout + 1

\* Native code returns Timeout in this step.
TimeoutFires ==
    /\ ctl.at = "native"
    /\ ctl'.at = "jit_exit"
    /\ emu'.state.exit_reason = "Timeout"

\* C6: under the JIT a guest that never traps returns Timeout: a run
\* always ends (every cycle of translated code passes a check of
\* instrs_execed > timeout); the check fires at a JAL, JALR or branch with
\* the counter above the threshold and reenter_pc at that instruction;
\* and run returns Timeout with PC there and never with the counter at or
\* below the threshold.
C6_JitTimeout ==
    /\ [](emu.jit_cache /\ ctl.at # "host" ~> ctl.at \in {"host", "aborted"})
    /\ [][TimeoutFires =>
             /\ InBlock
             /\ CurInst.op \in Branches \cup {"JAL", "JALR"}
             /\ emu'.state.instrs_execed > emu'.state.timeout
             /\ emu'.state.reenter_pc = ctl.label]_vars
    /\ []((emu.jit_cache /\ ctl.at = "host" /\ vmexit.kind = "Timeout") =>
             /\ run_instrs > emu.state.timeout
             /\ reg(emu, Pc) = emu.state.reenter_pc
             /\ emu.state.exit_reason = "Timeout")

\* The guest that loops through a chained IndirectBranch re-entry
\* (auipc x9, 0; jalr x0, 0(x9)) was stopped by Timeout at its JALR.
C6_Witness ==
    /\ emu.jit_cache
    /\ ctl.at = "host"
    /\ vmexit.kind = "Timeout"
    /\ FetchAtPc.inst = FromLeBytes(jalr_x0_x9, 1)

\* run returns Syscall in this step.
SyscallReturns == vmexit.kind # "Syscall" /\ vmexit'.kind = "Syscall"

\* C7: ECALL surfaces as Syscall with PC left on the ECALL, in the
\* interpreter and under the JIT: PC is at the ECALL (not past it), the
\* ECALL changes no general register, and the earlier instructions have
\* taken effect (addi x1, x0, 5; addi x2, x1, -3; ecall from the entry
\* state gives x1 = 5, x2 = 2 and PC = 8).
C7_EcallIsSyscall ==
    /\ []((ctl.at = "host" /\ vmexit.kind = "Syscall") =>
             /\ FetchAtPc.err = Ok
             /\ FetchAtPc.inst = ECALL
             /\ (/\ original.memory.memory =
                        Image(Programs[1], FALSE).memory.memory
                 /\ start.state.regs = original.state.regs)
                => /\ reg(emu, Ra) = W(5)
                   /\ reg(emu, 2) = W(2)
                   /\ reg(emu, Pc) = W(8))
    /\ [][SyscallReturns => GeneralRegs(emu') = GeneralRegs(emu)]_vars
    /\ [][(InBlock /\ CurInst.op = "ECALL") =>
             /\ emu'.state.regs = emu.state.regs
             /\ emu'.state.reenter_pc = ctl.label
             /\ emu'.state.exit_reason = "Ecall"]_vars

\* The example program has run to its ECALL under the JIT.
C7_Witness ==
    /\ emu.jit_cache
    /\ ctl.at = "host"
    /\ vmexit.kind = "Syscall"
    /\ reg(emu, Ra) = W(5)
    /\ reg(emu, 2) = W(2)
    /\ reg(emu, Pc) = W(8)

\* C8: EBREAK executed by the interpreter returns the Ebreak exit with PC
\* at the EBREAK, as the JIT path does: a run without a JIT that has ended
\* at an EBREAK has returned Ebreak to the worker.
C8_InterpreterEbreak ==
    (/\ ~emu.jit_cache
     /\ RunEnded
     /\ FetchAtPc.err = Ok
     /\ FetchAtPc.inst = EBREAK)
    => (ctl.at = "host" /\ vmexit = VmExit("Ebreak"))

\* C9: a decoder fault is a typed exit: when the instruction at the
\* current PC has an unknown opcode or an invalid sub-field combination,
\* run returns InvalidOpcode with PC at that instruction, in the
\* interpreter and under the JIT.
C9_DecoderFault ==
    (/\ RunEnded
     /\ FetchAtPc.err = Ok
     /\ InstAtPc.op = "PANIC")
    => (ctl.at = "host" /\ vmexit = VmExit("InvalidOpcode"))

\* C10: the instruction fetch fails only with ExecFault: a run that has
\* ended at a PC whose fetch fails (misaligned, EXEC missing, out of
\* bounds, or overflowing the address space) has returned ExecFault: of
\* the PC when it is misaligned, else of an address of the 4 bytes.
C10_FetchFault ==
    (/\ RunEnded
     /\ \/ reg(emu, Pc) \cap {0, 1} # {}
        \/ AccessCheck(emu.memory, reg(emu, Pc), 4, PERM_EXEC) # Ok)
    => /\ ctl.at = "host"
       /\ vmexit.kind = "ExecFault"
       /\ reg(emu, Pc) \cap {0, 1} # {} => vmexit.addr = reg(emu, Pc)
       /\ reg(emu, Pc) \cap {0, 1} = {} =>
             \E i \in 0..3 : vmexit.addr = wrapping_add(reg(emu, Pc), W(i))

\* What the MMU accessor answers to the fetch at the emulator's PC and to
\* the memory access of the load or store at PC (Ok when it raises
\* nothing, or when the instruction at PC is no load or store).
FetchCheck == AccessCheck(emu.memory, reg(emu, Pc), 4, PERM_EXEC)
MemAddr == wrapping_add(reg(emu, InstAtPc.rs1), InstAtPc.imm)
MemCheck ==
    IF FetchAtPc.err # Ok THEN Ok
    ELSE IF InstAtPc.op \in Loads
    THEN AccessCheck(emu.memory, MemAddr, AccessSize(InstAtPc.op), PERM_READ)
    ELSE IF InstAtPc.op \in Stores
    THEN AccessCheck(emu.memory, MemAddr, AccessSize(InstAtPc.op), PERM_WRITE)
    ELSE Ok

\* C11: faults are surfaced verbatim: a run that has ended at an
\* instruction whose fetch, load or store makes an MMU accessor raise a
\* fault has returned that fault, with the same kind and the same address.
C11_FaultsVerbatim ==
    (RunEnded /\ reg(emu, Pc) \cap {0, 1} = {}) =>
        /\ FetchCheck # Ok => vmexit = FetchCheck
        /\ MemCheck # Ok => vmexit = MemCheck

\* The part of C11 that the code keeps: the fault of a load or a store
\* is returned as the accessor raised it.
C11_LoadStoreVerbatim ==
    (RunEnded /\ reg(emu, Pc) \cap {0, 1} = {}) =>
        (MemCheck # Ok => vmexit = MemCheck)

\* The interpreter is at the top of its loop at a PC that has a
\* breakpoint and whose fetch succeeds; what the callback of that PC
\* gives on the emulator as it is.
AtBreakpoint ==
    /\ ctl.at = "emu"
    /\ reg(emu, Pc) \in DOMAIN emu.breakpoints
    /\ FetchAtPc.err = Ok
CallbackAtPc == Callback(emu.breakpoints[reg(emu, Pc)], emu)

\* One iteration of run_emu on emulator e with its breakpoints taken away
\* (and put back after it): the instruction at PC, executed once.
ExecutedOnce(e, instrs) ==
    LET r == run_emu_iter([e EXCEPT !.breakpoints = NoBp], instrs)
    IN  [r EXCEPT !.emu.breakpoints = e.breakpoints]

\* C12: the breakpoint protocol of the interpreter.  At a PC P with a
\* callback the callback runs first, on the emulator as it is before the
\* instruction at P and with the counter not yet incremented.  If it
\* returns Err, run_emu returns that Err; if it changes PC, the loop goes
\* on at the new PC and the instruction at P is neither executed nor
\* counted; if it leaves PC at P, the instruction at P is executed and
\* counted exactly once, on the emulator the callback left.
C12_InterpreterBreakpoint ==
    [][AtBreakpoint =>
         IF CallbackAtPc.err # Ok
         THEN /\ vmexit' = CallbackAtPc.err
              /\ ctl'.at = "host"
              /\ emu' = CallbackAtPc.emu
              /\ run_instrs' = run_instrs
         ELSE IF reg(CallbackAtPc.emu, Pc) # reg(emu, Pc)
         THEN /\ emu' = CallbackAtPc.emu
              /\ run_instrs' = run_instrs
              /\ ctl' = ctl
              /\ vmexit' = vmexit
         ELSE /\ emu' = ExecutedOnce(CallbackAtPc.emu, run_instrs).emu
              /\ run_instrs' = run_instrs + 1
              /\ vmexit' = ExecutedOnce(CallbackAtPc.emu, run_instrs).exit
      ]_vars

\* The interpreter ran jal x1, 4; addi x1, x1, 1; ecall with free_bp at
\* 4: the callback left PC at 4 (ra = 4), the addi ran once (x1 = 5) and
\* three instructions were counted.
C12_Witness ==
    /\ ~emu.jit_cache
    /\ ctl.at = "host"
    /\ vmexit.kind = "Syscall"
    /\ W(4) \in DOMAIN emu.breakpoints
    /\ reg(emu, Ra) = W(5)
    /\ run_instrs = 3

\* run_jit after a Breakpoint exit of the native code: the emulator
\* after the read-back (PC = reenter_pc) and what the callback gives on it.
JitExitEmu ==
    [set_reg(emu, Pc, emu.state.reenter_pc) EXCEPT
        !.memory = set_dirty_len(@, emu.state.dirty_idx)]
JitCallback ==
    Callback(emu.breakpoints[emu.state.reenter_pc], JitExitEmu)

\* The callback of a JIT breakpoint exit returns Ok and leaves PC at the
\* breakpoint.
JitCallbackKeepsPc ==
    /\ ctl.at = "jit_exit"
    /\ emu.state.exit_reason = "Breakpoint"
    /\ emu.state.reenter_pc \in DOMAIN emu.breakpoints
    /\ JitCallback.err = Ok
    /\ reg(JitCallback.emu, Pc) = emu.state.reenter_pc

\* C13: under the JIT a breakpoint callback at P that returns Ok and
\* leaves PC at P is followed by the execution of the instruction at P,
\* as in the interpreter: run keeps the emulator the callback left, does
\* not return and does not abort, and goes on to run the instruction.
C13_JitBreakpointResumes ==
    [][JitCallbackKeepsPc =>
          /\ emu' = JitCallback.emu
          /\ vmexit' = vmexit
          /\ ctl'.at \in {"jit_enter", "native", "emu"}]_vars

\* The interpreter retires the instruction at its PC in this step: it
\* was counted and run_emu did not return.
Retires ==
    /\ ctl.at = "emu"
    /\ FetchAtPc.err = Ok
    /\ run_instrs' = run_instrs + 1
    /\ ctl'.at = "emu"

\* rd after a jump that links: the return address, or 0 for rd = x0.
Linked(rd, retaddr) == IF rd = Zero THEN {} ELSE retaddr

\* C14: the PC update rule of the interpreter.  After it retires the
\* instruction at P: JAL leaves PC = P + imm and rd = P + 4; JALR leaves
\* PC = rs1 + imm with rs1 read before rd is written, and rd = P + 4; a
\* conditional branch leaves PC = P + imm when its condition holds and
\* P + 4 when not; any other instruction leaves PC = P + 4 (mod 2^64).
C14_PcUpdateRule ==
    [][Retires =>
         LET P   == reg(emu, Pc)
             d   == InstAtPc
             rs1 == reg(emu, d.rs1)
             rs2 == reg(emu, d.rs2)
             P4  == wrapping_add(P, W(4))
         IN  CASE d.op = "JAL" ->
                    /\ reg(emu', Pc) = wrapping_add(P, d.imm)
                    /\ reg(emu', d.rd) = Linked(d.rd, P4)
               [] d.op = "JALR" ->
                    /\ reg(emu', Pc) = wrapping_add(rs1, d.imm)
                    /\ reg(emu', d.rd) = Linked(d.rd, P4)
               [] d.op \in Branches ->
                    reg(emu', Pc) = IF EmuTaken(d.op, rs1, rs2)
                                    THEN wrapping_add(P, d.imm) ELSE P4
               [] OTHER -> reg(emu', Pc) = P4
      ]_vars

\* The interpreter ran jal x1, 4; jalr x1, 4(x1); ecall: the JALR with
\* rd = rs1 went to 4 + 4 and left x1 = 8.
C14_Witness ==
    /\ ~emu.jit_cache
    /\ ctl.at = "host"
    /\ vmexit.kind = "Syscall"
    /\ Fetch(emu.memory, W(4)).inst = FromLeBytes(jalr_x1_4_x1, 1)
    /\ reg(emu, Pc) = W(8)
    /\ reg(emu, Ra) = W(8)
    /\ run_instrs = 3

\* Translated code returns ReadFault or WriteFault in this step; run_jit
\* has such an exit to dispatch; the interpreter runs as its fallback.
JitFaults ==
    /\ ctl.at = "native"
    /\ ctl'.at = "jit_exit"
    /\ emu'.state.exit_reason \in {"ReadFault", "WriteFault"}
JitFaultExit ==
    /\ ctl.at = "jit_exit"
    /\ emu.state.exit_reason \in {"ReadFault", "WriteFault"}
Fallback == ctl.at = "emu" /\ emu.jit_cache

\* C15: a memory fault of translated code is resolved to the precise
\* fault of the same instruction.  The exit is taken at a load or store
\* at P before it changes a register or a byte, with reenter_pc = P;
\* run_jit hands the emulator with PC = P to the interpreter; and the
\* interpreter returns at once the fault the MMU raises for the
\* instruction at P, PC still at P, no register or byte changed: it
\* never goes on to another guest instruction.
C15_JitFaultIsPrecise ==
    /\ [][JitFaults =>
             /\ InBlock
             /\ CurInst.op \in Loads \cup Stores
             /\ emu'.state.reenter_pc = ctl.label
             /\ emu'.state.regs = emu.state.regs
             /\ emu'.memory = emu.memory]_vars
    /\ [][JitFaultExit =>
             /\ ctl'.at = "emu"
             /\ reg(emu', Pc) = emu.state.reenter_pc
             /\ GeneralRegs(emu') = GeneralRegs(emu)
             /\ emu'.memory.memory = emu.memory.memory
             /\ emu'.memory.permissions = emu.memory.permissions]_vars
    /\ [][Fallback =>
             /\ MemCheck # Ok
             /\ ctl'.at = "host"
             /\ vmexit' = MemCheck
             /\ emu'.state.regs = emu.state.regs
             /\ emu'.memory = emu.memory]_vars

\* Under the JIT lbu x6, 1(x8) read an allocated, never written byte:
\* translated code left with ReadFault and run returned the
\* interpreter's UninitFault of that byte, PC at the load.
C15_Witness ==
    /\ emu.jit_cache
    /\ ctl.at = "host"
    /\ vmexit = Fault("UninitFault", W(AllocBase))
    /\ FetchAtPc.inst = FromLeBytes(lbu_x6_1_x8, 1)
    /\ emu.state.exit_reason = "ReadFault"

\* The interpreter is about to execute a store whose write succeeds.
EmuStoreSucceeds ==
    /\ ctl.at = "emu"
    /\ FetchAtPc.err = Ok
    /\ reg(emu, Pc) \notin DOMAIN emu.breakpoints
    /\ InstAtPc.op \in Stores
    /\ MemCheck = Ok

\* After a store of the n low bytes of val to addr, emulator e has READ
\* on every byte of it and a load of the same width from addr succeeds
\* and returns those bytes.
ReadsBack(e, addr, n, val) ==
    /\ \A i \in 0..(n - 1) :
           HasPerm(e.memory.permissions[N(addr) + i], PERM_READ)
    /\ read_into(e.memory, addr, n) =
           [err |-> Ok, bytes |-> ToLeBytes(val, n)]

\* C16: write grants read: after a successful guest store, in the
\* interpreter or in translated code, every byte the store touched has
\* READ, so that a load of the same width from the same address succeeds
\* and returns the stored value.
C16_WriteGrantsRead ==
    /\ [][EmuStoreSucceeds =>
             ReadsBack(emu', MemAddr, AccessSize(InstAtPc.op),
                       reg(emu, InstAtPc.rs2))]_vars
    /\ [][StoreSucceeds =>
             ReadsBack(emu', StoreAddr, AccessSize(CurInst.op),
                       JitGetReg(emu, CurInst.rs2))]_vars

\* Under the JIT sb x5, 1(x8) wrote 0xff to an allocated, never written
\* byte and lb x6, 1(x8) read it back: x6 = -1.
C16_Witness ==
    /\ emu.jit_cache
    /\ ctl.at = "host"
    /\ vmexit.kind = "Syscall"
    /\ Fetch(emu.memory, W(4)).inst = FromLeBytes(sb_x5_1_x8, 1)
    /\ reg(emu, S0) = W(AllocBase - 1)
    /\ reg(emu, 6) = AllOnes
    /\ HasPerm(emu.memory.permissions[AllocBase], PERM_READ)

\* Translated code returns Coverage in this step, for this edge; run_jit
\* has a Coverage exit to dispatch.
CoverageFires ==
    /\ ctl.at = "native"
    /\ ctl'.at = "jit_exit"
    /\ emu'.state.exit_reason = "Coverage"
FiredEdge == <<emu'.state.cov_from, emu'.state.cov_to>>
CoverageExit == ctl.at = "jit_exit" /\ emu.state.exit_reason = "Coverage"

\* C17: coverage is set-once for one worker.  A Coverage exit is taken
\* only for an edge whose bit is clear and that has not been reported
\* before, and it sets the bit; the bitmap and the reported edges only
\* grow, across reset too, so the edge is never reported again in this or
\* a later fuzz case; after the exit run_jit records the edge and
\* re-enters translated code at the source instruction of the edge.
C17_CoverageSetOnce ==
    /\ [][CoverageFires =>
             /\ FiredEdge \notin corpus.code_coverage
             /\ CovHash(FiredEdge[1], FiredEdge[2])
                   \notin corpus.coverage_bitmap
             /\ CovHash(FiredEdge[1], FiredEdge[2])
                   \in corpus'.coverage_bitmap
             /\ FiredEdge[1] = ctl.label
             /\ emu'.state.reenter_pc = ctl.label]_vars
    /\ [][/\ corpus.coverage_bitmap \subseteq corpus'.coverage_bitmap
           /\ corpus.code_coverage \subseteq corpus'.code_coverage]_vars
    /\ [][CoverageExit =>
             /\ <<emu.state.cov_from, emu.state.cov_to>>
                   \in corpus'.code_coverage
             /\ ctl'.at = "jit_enter"
             /\ vmexit' = vmexit
             /\ reg(emu', Pc) = emu.state.cov_from]_vars

\* A fuzz case after a reset comes for the first time to the jal x0, -4
\* at 4 (one instruction counted) and finds the bit of the edge 4 -> 0
\* set by an earlier case.
C17_Witness ==
    /\ nreset > 0
    /\ InBlock
    /\ ctl.label = W(4)
    /\ CurInst.op = "JAL"
    /\ emu.state.instrs_execed = 1
    /\ <<W(4), W(0)>> \in corpus.code_coverage
    /\ CovHash(W(4), W(0)) \in corpus.coverage_bitmap

\* What a block gives that is observable to the guest: its registers and
\* memory, and where control goes (a goto label, or the exit and the
\* re-entry PC of a return).
BlockEffect(r) ==
    [regs   |-> r.emu.state.regs,
     memory |-> r.emu.memory,
     ret    |-> r.ret,
     goto   |-> r.goto,
     exit   |-> IF r.ret THEN r.emu.state.exit_reason ELSE "None",
     pc     |-> IF r.ret THEN r.emu.state.reenter_pc ELSE {}]

\* The block of the current label run again on emulator e with the
\* coverage bitmap as this step leaves it.
RunAgain(e) ==
    JitBlock(e, corpus'.coverage_bitmap, jitcache[ctl.unit], ctl.label)

ReportedBitsSet ==
    \A edge \in corpus.code_coverage :
        CovHash(edge[1], edge[2]) \in corpus.coverage_bitmap

\* C19: coverage bits are monotonic under concurrency: with several
\* workers in coverage_event! on the shared bitmap, in any interleaving
\* of their test, load and store, no step clears a bit that was set, so
\* every edge that was reported keeps its bit and is not reported again.
C19_CoverageBitsMonotonic ==
    /\ [][corpus.coverage_bitmap \subseteq corpus'.coverage_bitmap]_vars
    /\ []ReportedBitsSet

\* Same content hash, in the hands of two workers.
SameUnit(w1, w2) ==
    /\ w1 # w2
    /\ workers[w1].hash = workers[w2].hash
    /\ workers[w1].hash \in UnitHashes

\* C20: single producer per content hash: however many workers call
\* compile_jit on units that hash to H, the compiler is run at most once
\* for H and the cache file of H is installed at most once, only by the
\* worker whose jobs.insert returned true; every other worker gets its
\* bytes by reading the installed file.
C20_SingleProducer ==
    /\ \A h \in UnitHashes :
          jitdir.compiled[h] <= 1 /\ jitdir.installed[h] <= 1
    /\ \A w \in Workers :
          /\ workers[w].at \in {"clang", "objcopy", "rename"}
                => workers[w].first
          /\ workers[w].at = "read" => workers[w].hash \in jitdir.files
    /\ \A w1, w2 \in Workers :
          (SameUnit(w1, w2)
             /\ workers[w1].at \in {"clang", "objcopy", "rename"})
             => workers[w2].at \in {"wait", "run"}

\* Two workers lifted units with the same hash, absent from the cache:
\* one ran the compiler and installed the file, the other waited and is
\* reading it.
C20_Witness ==
    \E w1, w2 \in Workers :
        /\ SameUnit(w1, w2)
        /\ workers[w1].first
        /\ ~workers[w2].first
        /\ workers[w2].at = "read"
        /\ workers[w2].compiles = 0
        /\ jitdir.compiled[workers[w1].hash] = 1
        /\ jitdir.installed[workers[w1].hash] = 1

\* C28: under the JIT, run returns ExecFault only when guest control flow
\* has reached the instruction whose fetch faults: at every ExecFault exit
\* of a JIT run the PC register is the PC of the instruction that could
\* not be fetched, so an address that is only statically reachable (the
\* fall-through after an ECALL or after the last instruction of a region)
\* does not make run fail.
C28_JitExecFaultIsReached ==
    (RunEnded /\ emu.jit_cache /\ vmexit.kind = "ExecFault")
        => Fetch(emu.memory, reg(emu, Pc)).err = vmexit

\* C30: the instructions-executed counter counts retired guest
\* instructions: a run under the JIT that ends as the interpreter's run
\* of the same guest execution ends (the same exit, other than Timeout,
\* and the same registers) reports the same counter as the interpreter.
C30_CounterCountsRetired ==
    (emu.jit_cache /\ ctl.at = "host" /\ vmexit # Ok) =>
        \A r \in {run_emu(start, 0, Timeout + MaxOverrun)} :
            (/\ r.exit = vmexit
             /\ vmexit.kind # "Timeout"
             /\ r.emu.state.regs = emu.state.regs)
                => run_instrs = r.instrs

\* C29: a callback registered with add_breakpoint at P is invoked every
\* time guest execution reaches P under the JIT: whenever native code is
\* at the block of a P that has a callback, the block leaves with the
\* Breakpoint exit (on which run_jit calls the callback), also when the
\* unit was translated before the callback was registered.
C29_JitBreakpointAlwaysInvoked ==
    [][(ctl.at = "native" /\ ctl.label \in DOMAIN emu.breakpoints) =>
          /\ emu'.state.exit_reason = "Breakpoint"
          /\ emu'.state.reenter_pc = ctl.label
          /\ ctl'.at = "jit_exit"]_vars

\* RV64I by bit position: the logical and the arithmetic right shift and
\* the left shift of the n-bit value w by k, and the sign extension of an
\* n-bit value to 64 bits.
BitsSrl(w, k, n) == {i \in 0..(n - 1) : i + k <= n - 1 /\ (i + k) \in w}
BitsSra(w, k, n) ==
    {i \in 0..(n - 1) : IF i + k <= n - 1 THEN (i + k) \in w
                         ELSE (n - 1) \in w}
BitsSll(w, k, n) == {i \in 0..(n - 1) : i >= k /\ (i - k) \in w}
BitsSext(w, n) ==
    {i \in Bits64 : IF i < n THEN i \in w ELSE (n - 1) \in w}

\* The shift amount in the low n bits of b.
ShiftAmount(b, n) ==
    IF b \cap (0..(n - 1)) = {} THEN 0
    ELSE N(b \cap (0..(n - 1)))

\* The little-endian value of the n bytes of memory m at addr.
BitsAt(m, addr, n) ==
    {i \in 0..(8 * n - 1) :
        (m.memory[N(addr) + (i \div 8)] \div (2 ^ (i % 8))) % 2 = 1}

\* What RV64I asks of the instruction d on the emulator e: the value of
\* rd after it.
Rv64Result(d, e) ==
    LET a   == reg(e, d.rs1)
        b   == reg(e, d.rs2)
        lo  == 0..31
        adr == wrapping_add(a, d.imm)
    IN  CASE d.op = "ADDW"  -> BitsSext(wrapping_add(a, b) \cap lo, 32)
          [] d.op = "SUBW"  -> BitsSext(wrapping_sub(a, b) \cap lo, 32)
          [] d.op = "ADDIW" -> BitsSext(wrapping_add(a, d.imm) \cap lo, 32)
          [] d.op = "SLLW"  ->
                BitsSext(BitsSll(a \cap lo, ShiftAmount(b, 5), 32), 32)
          [] d.op = "SRLW"  ->
                BitsSext(BitsSrl(a \cap lo, ShiftAmount(b, 5), 32), 32)
          [] d.op = "SRAW"  ->
                BitsSext(BitsSra(a \cap lo, ShiftAmount(b, 5), 32), 32)
          [] d.op = "SLLIW" -> BitsSext(BitsSll(a \cap lo, d.shamt, 32), 32)
          [] d.op = "SRLIW" -> BitsSext(BitsSrl(a \cap lo, d.shamt, 32), 32)
          [] d.op = "SRAIW" -> BitsSext(BitsSra(a \cap lo, d.shamt, 32), 32)
          [] d.op = "SLL"   -> BitsSll(a, ShiftAmount(b, 6), 64)
          [] d.op = "SRL"   -> BitsSrl(a, ShiftAmount(b, 6), 64)
          [] d.op = "SRA"   -> BitsSra(a, ShiftAmount(b, 6), 64)
          [] d.op = "SRAI"  -> BitsSra(a, d.shamt, 64)
          [] d.op \in {"LB", "LH", "LW"} ->
                BitsSext(BitsAt(e.memory, adr, AccessSize(d.op)),
                         8 * AccessSize(d.op))
          [] d.op \in {"LBU", "LHU", "LWU"} ->
                BitsAt(e.memory, adr, AccessSize(d.op))

\* The instructions C27 is about.
Rv64Ops ==
    {"ADDW", "SUBW", "SLLW", "SRLW", "SRAW", "ADDIW", "SLLIW", "SRLIW",
     "SRAIW", "SLL", "SRL", "SRA", "SRAI", "LB", "LH", "LW", "LBU", "LHU",
     "LWU"}

\* The instruction at 0 of the run that began in `start`.
FirstInst == Decode(Fetch(start.memory, W(0)).inst)

\* The run began at 0, retired the instruction there and ended at the
\* ECALL that follows it.
RanFirstInst ==
    /\ RunEnded
    /\ vmexit.kind = "Syscall"
    /\ reg(start, Pc) = W(0)
    /\ reg(emu, Pc) = W(4)
    /\ Fetch(start.memory, W(0)).err = Ok
    /\ FirstInst.op \in Rv64Ops

\* C27: RV64I word and shift arithmetic: under the interpreter and under
\* the JIT alike, ADDW, SUBW, SLLW, SRLW, SRAW, ADDIW, SLLIW, SRLIW and
\* SRAIW take the low 32 bits of their sources and write the 32-bit result
\* sign-extended; SLL, SRL, SRA shift by the low 6 bits of rs2 and the W
\* shifts by the low 5; the arithmetic shifts replicate the sign bit;
\* LB/LH/LW sign-extend and LBU/LHU/LWU zero-extend what they load.
C27_WordAndShiftArithmetic ==
    RanFirstInst => reg(emu, FirstInst.rd) = Rv64Result(FirstInst, start)

\* SRAW under the JIT of a negative low word under clear high bits, by a
\* shift amount with bits above the low 5.
C27_Witness ==
    /\ RanFirstInst
    /\ emu.jit_cache
    /\ FirstInst.op = "SRAW"
    /\ reg(start, Ra) = {0, 31, 40}
    /\ reg(start, 2) = W(33)
    /\ reg(emu, 3) = (30..63)

\* The first thread for the hash of waiter w has started the compilation.
CompilationStarted(w) ==
    \E w1 \in Workers :
        /\ SameUnit(w1, w)
        /\ workers[w1].first
        /\ workers[w1].at \in {"clang", "objcopy", "rename"}

\* No file under a cache name is partially written, and no thread has
\* returned bytes that are.
OnlyCompleteInstalls ==
    /\ \A h \in jitdir.files : jitdir.content[h].state = "whole"
    /\ \A w \in Workers : workers[w].got.state \in {"none", "whole"}

\* The threads that returned for the same hash returned the same bytes.
IdenticalBytes ==
    \A w1, w2 \in Workers :
        (SameUnit(w1, w2) /\ workers[w1].compiles > 0
            /\ workers[w2].compiles > 0)
                => workers[w1].got = workers[w2].got

\* C21: waiters see only complete installs and make progress: a cache
\* file is visible only whole, all threads return the same bytes for a
\* hash, and every thread that waits for a hash leaves the wait once the
\* first thread's compilation has been started.
C21_WaitersProgress ==
    /\ []OnlyCompleteInstalls
    /\ []IdenticalBytes
    /\ \A w \in Workers :
          (workers[w].at = "wait" /\ CompilationStarted(w))
              ~> (workers[w].at # "wait")

\* The safety half of C21 alone.
C21_CompleteAndIdentical == OnlyCompleteInstalls /\ IdenticalBytes

----------------------------------------------------------------------------
(* Several workers that end fuzz cases with crashes.  The crash is filed   *)
(* with corpus.unique_crashes.entry_or_insert(&key, pc.0, || { .. }): the  *)
(* table takes the key from the first caller and runs its closure, which   *)
(* stores the input in corpus.inputs and writes the crash file; a caller   *)
(* that finds the key taken waits until the entry is filled and runs       *)
(* nothing.                                                                *)

\* The exits that end the cases: faults at both ends of the three address
\* ranges, and an invalid opcode.
CrashExits ==
    { Fault("ReadFault", W(0)),
      Fault("ReadFault", W(32767)),
      Fault("ReadFault", W(32768)),
      Fault("WriteFault", AllOnes),
      Fault("WriteFault", wrapping_sub({}, W(32768))),
      Fault("WriteFault", wrapping_sub({}, W(32769))),
      VmExit("InvalidOpcode") }

\* The key of the crash worker w has in hand.
KeyOf(w) == workers[w].crash.key

RECURSIVE CrashCount(_)
\* The crashes of the workers 1..w so far.
CrashCount(w) ==
    IF w = 0 THEN 0 ELSE workers[w].crashes + CrashCount(w - 1)

\* Workers inside the closure of entry_or_insert.
Filling == {w \in Workers : workers[w].at \in {"save", "write"}}

CrashInit ==
    /\ SoloInit
    /\ corpus = CorpusNew
    /\ workers = [w \in Workers |-> WorkerIdle]
    /\ compile_jobs = {}
    /\ jitdir = JitDirEmpty({})
    /\ DriverInit

\* A fuzz case of worker w ends with a crash: vmexit.is_crash() is Some.
WorkerCrash(w) ==
    /\ workers[w].at = "run"
    /\ CrashCount(NWorkers) < MaxCrashes
    /\ \E exit \in CrashExits :
          workers' = [workers EXCEPT
                        ![w].at = "crash",
                        ![w].crash = Crash(W(0), exit,
                                           CrashKey(W(0), is_crash(exit)),
                                           <<w, workers[w].crashes>>),
                        ![w].crashes = @ + 1]
    /\ UNCHANGED <<corpus, compile_jobs, jitdir, crashdir>>
    /\ UNCHANGED <<emu, original, jitcache, ctl, vmexit, run_instrs, start,
                   nset, nreset, stats, lifting>>

\* entry_or_insert: the key is free and the worker takes it; or the entry
\* is filled and the call returns; while another worker fills it the call
\* waits.
CrashEntry(w) ==
    /\ workers[w].at = "crash"
    /\ IF KeyOf(w) \notin corpus.unique_crashes
       THEN /\ corpus' = [corpus EXCEPT !.unique_crashes = @ \cup {KeyOf(w)}]
            /\ workers' = [workers EXCEPT ![w].at = "save"]
       ELSE /\ \A other \in Filling : KeyOf(other) # KeyOf(w)
            /\ workers' = [workers EXCEPT ![w].at = "run"]
            /\ UNCHANGED corpus
    /\ UNCHANGED <<compile_jobs, jitdir, crashdir>>
    /\ UNCHANGED <<emu, original, jitcache, ctl, vmexit, run_instrs, start,
                   nset, nreset, stats, lifting>>

\* The closure: input_hashes.entry_or_insert pushes the input to
\* corpus.inputs unless it is there.
CrashSave(w) ==
    /\ workers[w].at = "save"
    /\ corpus' = [corpus EXCEPT !.inputs = @ \cup {workers[w].crash.input}]
    /\ workers' = [workers EXCEPT ![w].at = "write"]
    /\ UNCHANGED <<compile_jobs, jitdir, crashdir>>
    /\ UNCHANGED <<emu, original, jitcache, ctl, vmexit, run_instrs, start,
                   nset, nreset, stats, lifting>>

\* The closure: std::fs::write of the crash file; the entry is filled.
CrashWrite(w) ==
    /\ workers[w].at = "write"
    /\ crashdir' = FsWrite(crashdir, CrashFileName(KeyOf(w)),
                           workers[w].crash.input)
    /\ workers' = [workers EXCEPT ![w].at = "run"]
    /\ UNCHANGED <<corpus, compile_jobs, jitdir>>
    /\ UNCHANGED <<emu, original, jitcache, ctl, vmexit, run_instrs, start,
                   nset, nreset, stats, lifting>>

CrashNext ==
    \E w \in Workers :
       \/ WorkerCrash(w)
       \/ CrashEntry(w)
       \/ CrashSave(w)
       \/ CrashWrite(w)

CrashSpec == CrashInit /\ [][CrashNext]_vars

----------------------------------------------------------------------------
(* compile_jit's loop over `queued`, one iteration a step, for the guest   *)
(* programs and entry points at, between, behind and far from their        *)
(* instructions.                                                           *)

LiftEntries == {W(0), W(4), W(8), W(12), W(2), W(DataBase), AllOnes \ {0, 1}}

\* The `goto inst_<pc>` lines emitted for d at pc: the jump of a JAL with
\* rd = x0, the taken branch, and the goto after the block of every
\* instruction whose arm does not `continue` (JAL and JALR do).
EmittedGotos(d, pc) ==
    LET target == wrapping_add(pc, d.imm)
        next   == wrapping_add(pc, W(4))
    IN  CASE d.op = "JAL"  -> IF d.rd = Zero THEN {target} ELSE {}
          [] d.op = "JALR" -> {}
          [] d.op \in Branches -> {target, next}
          [] OTHER -> {next}

LiftInit ==
    /\ \E i \in 1..Len(Programs), entry \in LiftEntries :
          /\ original = Image(Programs[i], TRUE)
          /\ emu = fork(Image(Programs[i], TRUE))
          /\ start = fork(Image(Programs[i], TRUE))
          /\ lifting = LiftStart(<<entry>>)
    /\ corpus = CorpusNew
    /\ jitcache = << >>
    /\ ctl = At("jit_enter")
    /\ vmexit = Ok
    /\ run_instrs = 0
    /\ nset = 0
    /\ nreset = 0
    /\ workers = [w \in Workers |-> WorkerIdle]
    /\ compile_jobs = {}
    /\ jitdir = JitDirEmpty({})
    /\ stats = StatsDefault
    /\ crashdir = << >>

\* What the loop of compile_jit leaves alone.
translated == <<emu, original, corpus, jitcache, ctl, vmexit, run_instrs,
                start, nset, nreset, workers, compile_jobs, jitdir, driver>>

LiftHead == Head(lifting.queued)
LiftPopped ==
    /\ lifting.at = "loop"
    /\ lifting.queued # << >>

\* if !visited.insert(pc) { continue; }
LiftSkip ==
    /\ LiftPopped
    /\ LiftHead \in lifting.visited
    /\ lifting' = [lifting EXCEPT !.queued = Tail(@)]
    /\ UNCHANGED translated

\* The alignment check or read_perms fails: return Err(ExecFault).
LiftFault ==
    /\ LiftPopped
    /\ LiftHead \notin lifting.visited
    /\ Fetch(emu.memory, LiftHead).err.kind # "Ok"
    /\ lifting' = [lifting EXCEPT
                     !.at = "failed",
                     !.queued = Tail(@),
                     !.visited = @ \cup {LiftHead},
                     !.err = Fetch(emu.memory, LiftHead).err]
    /\ UNCHANGED translated

\* The match on the instruction ends in unimplemented!() or unreachable!().
LiftPanic ==
    /\ LiftPopped
    /\ LiftHead \notin lifting.visited
    /\ \E f \in {Fetch(emu.memory, LiftHead)} :
          /\ f.err.kind = "Ok"
          /\ Decode(f.inst).op = "PANIC"
          /\ lifting' = [lifting EXCEPT
                           !.at = "panicked",
                           !.queued = Tail(@),
                           !.visited = @ \cup {LiftHead},
                           !.err = Panic(Decode(f.inst).msg)]
    /\ UNCHANGED translated

\* The block inst_<pc> is emitted with its gotos and the successors are
\* pushed on the queue.
LiftBlock ==
    /\ LiftPopped
    /\ LiftHead \notin lifting.visited
    /\ \E f \in {Fetch(emu.memory, LiftHead)} :
          /\ f.err.kind = "Ok"
          /\ Decode(f.inst).op # "PANIC"
          /\ lifting' = [lifting EXCEPT
                 !.queued = Tail(@) \o LiftSuccessors(Decode(f.inst), LiftHead),
                 !.visited = @ \cup {LiftHead},
                 !.unit = AddBlock(emu, @, LiftHead, f.inst),
                 !.gotos = @ \cup EmittedGotos(Decode(f.inst), LiftHead)]
    /\ UNCHANGED translated

\* The queue is empty: the function scope is closed.
LiftClose ==
    /\ lifting.at = "loop"
    /\ lifting.queued = << >>
    /\ lifting' = [lifting EXCEPT !.at = "done"]
    /\ UNCHANGED translated

LiftNext ==
    \/ LiftSkip
    \/ LiftFault
    \/ LiftPanic
    \/ LiftBlock
    \/ LiftClose

LiftSpec == LiftInit /\ [][LiftNext]_vars

\* The thread in compile_jit runs: an iteration that can be made is made.
\* This is WF_vars(LiftNext) with ENABLED <<LiftNext>>_vars written out as
\* the state predicate Lifting (in the loop one of the five steps can
\* always be taken, and each changes `lifting`).
Lifting == lifting.at = "loop"
FairLiftSpec == LiftSpec /\ ([]<>~Lifting \/ []<><<LiftNext>>_vars)

----------------------------------------------------------------------------
(* Properties of the worker's loop                                         *)

\* What Emulator::fork copies from the emulator e.
ForkCopies(e) ==
    \E child \in {fork(e)} :
       /\ child.state.regs = e.state.regs
       /\ DOMAIN child.state.regs = 0..32
       /\ child.files = e.files
       /\ child.fuzz_input = e.fuzz_input
       /\ child.breakpoints = e.breakpoints

\* The worker's reset has just acted.
ResetActed == ctl.at = "reset" /\ ctl'.at = "input"

\* C22: fork gives an emulator with the parent's 33 registers, file table,
\* fuzz input and breakpoints; nothing the child does changes the parent;
\* the reset that starts a fuzz case makes the registers and the file
\* table those of the parent, leaves the fuzz input, the breakpoints and
\* the JIT cache of the child alone, and leaves open no descriptor that a
\* fuzz case opened.
C22_ForkResetFrame ==
    [][/\ ForkCopies(emu) /\ ForkCopies(original)
       /\ original' = original
       /\ ResetActed =>
            /\ emu'.state.regs = original.state.regs
            /\ emu'.files = original.files
            /\ emu'.fuzz_input = emu.fuzz_input
            /\ emu'.breakpoints = emu.breakpoints
            /\ emu'.jit_cache = emu.jit_cache
            /\ \A i \in 1..Len(emu'.files) :
                  emu'.files[i].kind # "FuzzInput"]_vars

\* The second case of the program that opens testfn has been reset: the
\* table is the parent's again, the input of the first case is still there.
C22_Witness ==
    /\ ctl.at = "input"
    /\ nreset = 2
    /\ stats.fuzz_cases = 1
    /\ reg(original, A7) = W(1024)
    /\ reg(original, A0) = W(DataBase)
    /\ reg(original, A1) = {}
    /\ reg(emu, A0) = W(DataBase)
    /\ emu.files = <<Stdin, Stdout, Stderr>>
    /\ emu.fuzz_input # <<>>

\* The worker has just ended a fuzz case with the exit vmexit.
CaseEnded == ctl.at = "host" /\ ctl'.at = "reset"

\* The address the crash of the exit x is filed under.
CrashAddr(x) == IF x.kind = "InvalidOpcode" THEN {} ELSE x.addr

\* C23: a crash is recorded (the crash counter, the unique-crash store)
\* exactly when the exit that ends a fuzz case is AddressMiss, ReadFault,
\* ExecFault, UninitFault, WriteFault, InvalidFree or InvalidOpcode; no
\* other exit and no other step of the worker makes a crash record; the
\* record is filed under the exit's own fault address (0 for
\* InvalidOpcode).
C23_OnlyCrashExitsAreCrashes ==
    [][/\ (CaseEnded /\ vmexit.kind \in CrashKinds) =>
             /\ stats'.crashes = stats.crashes + 1
             /\ <<reg(emu, Pc), FaultTypeOf(vmexit.kind),
                  AddressTypeFrom(CrashAddr(vmexit))>>
                    \in corpus'.unique_crashes
             /\ is_crash(vmexit).addr = CrashAddr(vmexit)
       /\ ~(CaseEnded /\ vmexit.kind \in CrashKinds) =>
             /\ stats'.crashes = stats.crashes
             /\ corpus'.unique_crashes = corpus.unique_crashes
             /\ crashdir' = crashdir]_vars

\* Two cases have ended with an invalid free: both are counted, the
\* store has the one key.
C23_Witness ==
    /\ ctl.at = "reset"
    /\ vmexit.kind = "InvalidFree"
    /\ stats.crashes = 2
    /\ corpus.unique_crashes =
          {<<reg(emu, Pc), "Free", AddressTypeFrom(vmexit.addr)>>}
    /\ DOMAIN crashdir # {}

\* The worker has just serviced the system call num of the guest.
Serviced(num) ==
    /\ ctl.at = "host"
    /\ vmexit.kind = "Syscall"
    /\ vmexit'.kind # "Syscall"
    /\ reg(emu, A7) = W(num)

\* The guest memory of e holds at addr a string of n readable non-zero
\* bytes and its terminator.
StringAt(e, addr, n) ==
    /\ Small(addr)
    /\ N(addr) + n < MemSize
    /\ \A k \in 0..n : HasPerm(e.memory.permissions[N(addr) + k], PERM_READ)
    /\ \A k \in 0..(n - 1) : e.memory.memory[N(addr) + k] # 0
    /\ e.memory.memory[N(addr) + n] = 0

\* The string at addr is "testfn".
IsTestfn(e, addr) ==
    /\ StringAt(e, addr, 6)
    /\ \A k \in 1..6 : e.memory.memory[N(addr) + k - 1] = testfn[k]

\* The descriptors of e that are open, and the lowest one that is not.
OpenFds(e) == {fd \in 0..(Len(e.files) - 1) : e.files[fd + 1] # None}
LowestFree(e) ==
    CHOOSE fd \in 0..Len(e.files) :
        /\ fd \notin OpenFds(e)
        /\ \A other \in 0..(fd - 1) : other \in OpenFds(e)

\* C25: open of the path testfn with flags 0 returns the lowest descriptor
\* that is not open, installs there a fuzz-input handle with cursor 0 and
\* leaves every other descriptor as it was; open of any other path returns
\* -1, changes no descriptor and does not grow the file table.
C25_OpenFuzzInput ==
    [][(Serviced(1024) /\ reg(emu, A1) = {}) =>
         /\ IsTestfn(emu, reg(emu, A0)) =>
              \E fd \in {LowestFree(emu)} :
                 /\ vmexit' = Ok
                 /\ reg(emu', A0) = W(fd)
                 /\ emu'.files[fd + 1] = FuzzInput(0)
                 /\ Len(emu'.files) =
                       IF fd = Len(emu.files) THEN fd + 1 ELSE Len(emu.files)
                 /\ \A other \in OpenFds(emu) :
                       emu'.files[other + 1] = emu.files[other + 1]
                 /\ OpenFds(emu') = OpenFds(emu) \cup {fd}
         /\ (/\ \E n \in 0..MemSize : StringAt(emu, reg(emu, A0), n)
             /\ ~IsTestfn(emu, reg(emu, A0))) =>
                 /\ vmexit' = Ok
                 /\ reg(emu', A0) = AllOnes
                 /\ emu'.files = emu.files]_vars

\* Descriptor 0 was closed and open has given it to the fuzz input.
C25_Witness ==
    /\ ctl.at = "host"
    /\ vmexit = Ok
    /\ emu.files = <<FuzzInput(0), Stdout, Stderr>>
    /\ reg(emu, A0) = {}
    /\ reg(emu, A7) = W(1024)

\* The emulator a breakpoint callback is called on: the interpreter's, or
\* the one run_jit has written the exit's PC and dirty length to.
ShimEmu ==
    IF ctl.at = "emu" THEN emu
    ELSE [set_reg(emu, Pc, emu.state.reenter_pc) EXCEPT
            !.memory = set_dirty_len(@, emu.state.dirty_idx)]

\* run is about to call the callback `name` on ShimEmu.
ShimCalled(name) ==
    /\ \/ AtBreakpoint
       \/ /\ ctl.at = "jit_exit"
          /\ emu.state.exit_reason = "Breakpoint"
          /\ reg(ShimEmu, Pc) \in DOMAIN emu.breakpoints
    /\ emu.breakpoints[reg(ShimEmu, Pc)] = name

\* The bases of the live allocations of e.
LiveBases(e) == {al[1] : al \in e.memory.allocations}

\* The pointer argument of the shim is neither 0 nor a live base.
InvalidPointer ==
    reg(ShimEmu, A1) # {} /\ reg(ShimEmu, A1) \notin LiveBases(ShimEmu)

\* C26: the free shim with a non-zero base that is no live allocation ends
\* the run with InvalidFree(base) and changes neither PC nor any
\* permission; with base 0 it changes no memory state and sets PC to RA;
\* the realloc shim with a non-zero pointer that is no live base returns
\* InvalidFree(pointer) and allocates nothing.
C26_InvalidFreeSurfaced ==
    [][/\ (ShimCalled("free_bp") /\ InvalidPointer) =>
            /\ vmexit' = Fault("InvalidFree", reg(ShimEmu, A1))
            /\ ctl'.at = "host"
            /\ reg(emu', Pc) = reg(ShimEmu, Pc)
            /\ emu'.memory = ShimEmu.memory
       /\ (ShimCalled("free_bp") /\ reg(ShimEmu, A1) = {}) =>
            \E r \in {free_bp(ShimEmu)} :
               /\ r.err = Ok
               /\ r.emu.memory = ShimEmu.memory
               /\ reg(r.emu, Pc) = reg(ShimEmu, Ra)
               /\ vmexit'.kind # "InvalidFree"
       /\ (ShimCalled("realloc_bp") /\ InvalidPointer) =>
            /\ vmexit' = Fault("InvalidFree", reg(ShimEmu, A1))
            /\ ctl'.at = "host"
            /\ emu'.memory.allocations = ShimEmu.memory.allocations
            /\ emu'.memory.cur_alc = ShimEmu.memory.cur_alc
            /\ emu'.memory.permissions = ShimEmu.memory.permissions]_vars

\* realloc of an interior pointer has ended the run with InvalidFree.
C26_Witness ==
    /\ ctl.at = "host"
    /\ vmexit = Fault("InvalidFree", W(AllocBase + 1))
    /\ reg(emu, A1) = W(AllocBase + 1)
    /\ reg(emu, Pc) \in DOMAIN emu.breakpoints
    /\ emu.breakpoints[reg(emu, Pc)] = "realloc_bp"
    /\ emu.memory.cur_alc = HeapBase

\* The bucket of an address by its bits: Null for [0, 32768), Negative for
\* the addresses that are in [-32768, 0) as i64, Normal otherwise.
BucketOf(addr) ==
    IF addr \subseteq 0..14 THEN "Null"
    ELSE IF 15..63 \subseteq addr THEN "Negative"
    ELSE "Normal"

\* The crash of a worker that is filing one has the key (PC, fault kind,
\* bucket of the fault address).
KeysAreBucketed ==
    \A w \in Workers :
       workers[w].at # "run" =>
          KeyOf(w) = <<workers[w].crash.pc,
                       FaultTypeOf(workers[w].crash.exit.kind),
                       BucketOf(CrashAddr(workers[w].crash.exit))>>

\* At most one worker is in the closure for a key, and a crash file is
\* there exactly for the keys that are taken and not being filled.
OneSaverPerKey ==
    /\ \A w1, w2 \in Filling : KeyOf(w1) = KeyOf(w2) => w1 = w2
    /\ \A w \in Filling : KeyOf(w) \in corpus.unique_crashes
    /\ DOMAIN crashdir =
          {CrashFileName(k) : k \in corpus.unique_crashes
                                       \ {KeyOf(w) : w \in Filling}}

\* C24: under any interleaving of workers the crash input of a key is
\* saved at most once (a crash file is written by the worker that took the
\* key and is never written again), the saved bytes are the fuzz input of
\* the case that first produced the key, and the key's address bucket is
\* Null for [0, 32768), Negative for [-32768, 0) as i64, Normal otherwise.
C24_UniqueCrashesStoredOnce ==
    [][/\ KeysAreBucketed /\ OneSaverPerKey
       /\ \A k \in corpus'.unique_crashes \ corpus.unique_crashes :
             \E w \in Workers :
                /\ workers[w].at = "crash" /\ workers'[w].at = "save"
                /\ KeyOf(w) = k
       /\ \A name \in DOMAIN crashdir : crashdir'[name] = crashdir[name]
       /\ \A name \in (DOMAIN crashdir') \ DOMAIN crashdir :
             \E w \in Filling :
                /\ name = CrashFileName(KeyOf(w))
                /\ crashdir'[name] = workers[w].crash.input]_vars

\* Two workers have crashed with the same key at different addresses of
\* the Null range; the file holds the input of the one that took the key.
C24_Witness ==
    /\ \A w \in {1, 2} : workers[w].at = "run" /\ workers[w].crashes = 1
    /\ KeyOf(1) = KeyOf(2)
    /\ workers[1].crash.exit # workers[2].crash.exit
    /\ DOMAIN crashdir = {CrashFileName(KeyOf(1))}
    /\ crashdir[CrashFileName(KeyOf(1))] = workers[2].crash.input

----------------------------------------------------------------------------
(* Properties of the hand-off between run_jit and the translated code      *)

\* The blocks of guest memory.
NBlocks == MemSize \div DIRTY_BLOCK_SIZE

\* The MMU as host code finds it: when the native code has just returned,
\* after run_jit's set_dirty_len(state.dirty_idx) (the callback and the
\* interpreter fallback run after it); in native code nothing observes it.
HostMmu ==
    IF ctl.at = "jit_exit"
    THEN set_dirty_len(emu.memory, emu.state.dirty_idx)
    ELSE emu.memory

\* The first dirty_len entries of the dirty log.
DirtyLog(m) == SubSeq(m.dirty, 1, m.dirty_len)

\* Bitmap and log agree, no block is logged twice, the log is no longer
\* than the number of blocks.
DirtyConsistent(m) ==
    /\ m.dirty_len <= Len(m.dirty)
    /\ m.dirty_bitmap = {m.dirty[i] : i \in 1..m.dirty_len}
    /\ \A i, j \in 1..m.dirty_len : i # j => m.dirty[i] # m.dirty[j]
    /\ m.dirty_len <= NBlocks

\* s is a prefix of t.
IsPrefix(s, t) == Len(s) <= Len(t) /\ SubSeq(t, 1, Len(s)) = s

\* The log as the translated code has it: dirty up to state.dirty_idx.
NativeLog(e) == SubSeq(e.memory.dirty, 1, e.state.dirty_idx)

\* C31: wherever host code observes the MMU (after native code returned,
\* in a breakpoint callback, before the interpreter fallback, between
\* runs) a block's bit is set exactly when the block is among the first
\* dirty_len entries of the log, no block occurs twice and dirty_len is at
\* most the number of blocks; the entries the host has logged are the
\* start of the log the translated code appends to, so none is lost when
\* the JIT is entered again.
C31_DirtyLogConsistent ==
    /\ [](ctl.at # "native" => DirtyConsistent(HostMmu))
    /\ [][/\ ctl.at = "jit_enter" /\ ctl'.at = "native"
             => NativeLog(emu') = DirtyLog(emu.memory)
          /\ ctl.at = "native" /\ ctl'.at \in {"native", "jit_exit"}
             => IsPrefix(NativeLog(emu), NativeLog(emu'))]_vars

\* A callback has freed an allocation, the JIT was entered again and a
\* translated store has logged a second block after the callback's.
C31_Witness ==
    /\ ctl.at = "jit_exit"
    /\ emu.state.exit_reason = "Breakpoint"
    /\ NativeLog(emu) = <<AllocBase \div DIRTY_BLOCK_SIZE,
                          DataBase \div DIRTY_BLOCK_SIZE>>
    /\ DirtyLog(emu.memory) = <<AllocBase \div DIRTY_BLOCK_SIZE>>

\* The block the native code is in returns to run_jit in this step (to
\* its match, or to 'quick_reenter, which calls the cached target).
NativeBlock ==
    JitBlock(emu, corpus.coverage_bitmap, jitcache[ctl.unit], ctl.label)
NativeReturns == ctl.at = "native" /\ NativeBlock.ret

\* Where a return of the block at ctl.label asks to be entered again: an
\* IndirectBranch at the target of the jump (computed from the registers
\* before the link register is written), every other exit at the block.
ReenterAt ==
    IF emu'.state.exit_reason # "IndirectBranch" THEN ctl.label
    ELSE IF CurInst.op = "JAL" THEN wrapping_add(ctl.label, CurInst.imm)
    ELSE wrapping_add(JitGetReg(emu, CurInst.rs1), CurInst.imm)

\* run_jit dispatches an exit of the native code; for a Breakpoint exit
\* with a registered callback the callback runs.
JitExits == ctl.at = "jit_exit"
RunsCallback ==
    /\ emu.state.exit_reason = "Breakpoint"
    /\ emu.state.reenter_pc \in DOMAIN emu.breakpoints

\* C32: every return from translated code has set exit_reason to a value
\* other than None and reenter_pc to the re-entry point; when the native
\* code has returned to the host, what the host observes next has PC =
\* reenter_pc of the last exit: the callback is run on an emulator with
\* that PC, the interpreter fallback starts there and returns there, the
\* caller of run finds it there; this also holds after IndirectBranch
\* returns that were re-entered without going back to the host.
C32_NativeExitProtocol ==
    [][/\ NativeReturns =>
             /\ emu'.state.exit_reason # "None"
             /\ emu'.state.reenter_pc = ReenterAt
             /\ ctl'.at = "native" =>
                   /\ emu'.state.exit_reason = "IndirectBranch"
                   /\ ctl'.label = emu'.state.reenter_pc
       /\ JitExits =>
             /\ emu.state.exit_reason # "None"
             /\ reg(JitExitEmu, Pc) = emu.state.reenter_pc
             /\ IF RunsCallback THEN emu' = JitCallback.emu
                ELSE reg(emu', Pc) = emu.state.reenter_pc
             /\ ctl'.at = "host" => reg(emu', Pc) = emu.state.reenter_pc
       /\ Fallback =>
             /\ reg(emu, Pc) = emu.state.reenter_pc
             /\ ctl'.at = "host" => reg(emu', Pc) = emu.state.reenter_pc
      ]_vars

\* auipc x9, 0; jalr x0, x9 under the JIT: the JALR's IndirectBranch to 0
\* was re-entered from the cache until the counter passed the timeout,
\* and run returned Timeout with PC at the JALR.
C32_Witness ==
    /\ emu.jit_cache
    /\ ctl.at = "host"
    /\ vmexit.kind = "Timeout"
    /\ Fetch(emu.memory, W(4)).inst = FromLeBytes(jalr_x0_x9, 1)
    /\ reg(emu, Pc) = W(4)
    /\ emu.state.reenter_pc = W(4)
    /\ run_instrs > Timeout

----------------------------------------------------------------------------
(* Properties of the lifter                                                *)

LiftEnded == lifting.at \in {"done", "failed", "panicked"}
LiftLabels == DOMAIN lifting.unit.code

\* The block of a JAL that links or of a JALR, run with the registers of
\* e, the counter below the timeout and the coverage bitmap bm.
JumpBlock(e, bm, pc) == JitInst(e, bm, pc, Decode(lifting.unit.code[pc]))
JumpTarget(e, pc) ==
    LET d == Decode(lifting.unit.code[pc])
    IN  IF d.op = "JAL" THEN wrapping_add(pc, d.imm)
        ELSE wrapping_add(JitGetReg(e, d.rs1), d.imm)
CallBlocks ==
    {pc \in LiftLabels :
        LET d == Decode(lifting.unit.code[pc])
        IN  d.op = "JALR" \/ (d.op = "JAL" /\ d.rd # Zero)}

\* Every block of a call or an indirect jump returns: with Coverage at
\* the block while the edge is new, with IndirectBranch at the target when
\* it is known; it never jumps to a label.
CallsExit ==
    \A pc \in CallBlocks :
       LET t == JumpTarget(emu, pc)
       IN  /\ t \notin lifting.gotos \/ \E q \in LiftLabels \ CallBlocks :
                 t \in EmittedGotos(Decode(lifting.unit.code[q]), q)
           /\ JumpBlock(emu, {}, pc).ret
           /\ JumpBlock(emu, {}, pc).emu.state.exit_reason = "Coverage"
           /\ JumpBlock(emu, {CovHash(pc, t)}, pc).ret
           /\ JumpBlock(emu, {CovHash(pc, t)}, pc).emu.state.exit_reason
                 = "IndirectBranch"
           /\ JumpBlock(emu, {CovHash(pc, t)}, pc).emu.state.reenter_pc = t

----------------------------------------------------------------------------
(* Properties of the coverage index                                        *)

\* The edge the jump or branch of the current block takes.
EdgeTaken ==
    LET d    == CurInst
        pc   == ctl.label
        rs1  == JitGetReg(emu, d.rs1)
        rs2  == JitGetReg(emu, d.rs2)
    IN  CASE d.op = "JAL"  -> <<pc, wrapping_add(pc, d.imm)>>
          [] d.op = "JALR" -> <<pc, wrapping_add(rs1, d.imm)>>
          [] d.op \in Branches ->
                <<pc, IF JitTaken(d.op, rs1, rs2)
                      THEN wrapping_add(pc, d.imm)
                      ELSE wrapping_add(pc, W(4))>>

\* Translated code is at a jump or branch, below the timeout, whose edge
\* the corpus has not recorded: the edge is executed for the first time.
FirstExecution ==
    /\ InBlock
    /\ CurInst.op \in {"JAL", "JALR"} \cup Branches
    /\ emu.state.instrs_execed + 1 <= emu.state.timeout
    /\ EdgeTaken \notin corpus.code_coverage

\* C34: the coverage index separates edges (an edge and its reverse, two
\* fall-through edges): the first execution of an edge in translated code
\* leaves with a Coverage exit that carries the edge.
C34_EdgesHaveOwnBits ==
    [][FirstExecution =>
          /\ ctl'.at = "jit_exit"
          /\ emu'.state.exit_reason = "Coverage"
          /\ <<emu'.state.cov_from, emu'.state.cov_to>> = EdgeTaken]_vars

----------------------------------------------------------------------------
(* Properties of the worker's resumption after a system call               *)

\* The worker has a Syscall exit in hand; handle_syscall services it, or
\* returns an exit.
SyscallExit == ctl.at = "host" /\ vmexit.kind = "Syscall"
ServicedSyscall == SyscallExit /\ handle_syscall(emu).err = Ok
FailedSyscall == SyscallExit /\ handle_syscall(emu).err # Ok

\* The worker calls run.
CallsRun == ctl.at = "host" /\ ctl'.at \in {"jit_enter", "emu"}

\* The current block of translated code makes the timeout check (it has
\* a coverage_event!) with the counter above the timeout.
ChecksTimeout ==
    /\ InBlock
    /\ CurInst.op \in {"JAL", "JALR"} \cup Branches
    /\ emu.state.instrs_execed + 1 > emu.state.timeout

\* C35: within a fuzz case, a Syscall exit that handle_syscall services
\* is followed by PC = ECALL + 4, once, and the next call of run starts
\* there; when handle_syscall returns an exit, PC stays at the ECALL and
\* the case ends with that exit; the counter passed to run is not reset
\* between the calls of a case, the translated code counts on from it and
\* compares it with the timeout, so that the timeout bounds the case.
C35_SyscallResume ==
    [][/\ SyscallExit => InstAtPc.op = "ECALL"
       /\ ServicedSyscall =>
             /\ reg(emu', Pc) = wrapping_add(reg(emu, Pc), W(4))
             /\ GeneralRegs(emu') = GeneralRegs(handle_syscall(emu).emu)
             /\ vmexit' = Ok
             /\ ctl'.at = "host"
             /\ run_instrs' = run_instrs
       /\ FailedSyscall =>
             /\ reg(emu', Pc) = reg(emu, Pc)
             /\ vmexit' = handle_syscall(emu).err
             /\ vmexit'.kind \notin {"Ok", "Syscall"}
             /\ ctl'.at \in {"host", "aborted"}
             /\ run_instrs' = run_instrs
       /\ CallsRun =>
             /\ vmexit = Ok
             /\ emu' = emu
             /\ run_instrs' = run_instrs
       /\ ctl.at # "reset" => run_instrs' >= run_instrs
       /\ ctl.at = "jit_enter" /\ ctl'.at = "native" =>
             emu'.state.instrs_execed = run_instrs
       /\ ctl.at = "native" /\ ChecksTimeout =>
             /\ ctl'.at = "jit_exit"
             /\ emu'.state.exit_reason = "Timeout"
      ]_vars

\* ecall; jal x0, -4 with a7 = close under the JIT: three calls were
\* serviced, no call of run retired more than two instructions, and the
\* case ended with Timeout at the jump when the counter passed the
\* timeout.
C35_Witness ==
    /\ emu.jit_cache
    /\ ctl.at = "host"
    /\ vmexit.kind = "Timeout"
    /\ Fetch(emu.memory, W(4)).inst = FromLeBytes(jal_x0_m4, 1)
    /\ Fetch(emu.memory, W(0)).inst = FromLeBytes(ecall, 1)
    /\ reg(emu, A7) = W(57)
    /\ reg(emu, A0) = AllOnes
    /\ reg(emu, Pc) = W(4)
    /\ run_instrs = Timeout + 1


----------------------------------------------------------------------------
(* The file system calls of one fuzz case.  The guest is any code: between *)
(* two returns to the host it may set its argument registers to anything   *)
(* and execute an ECALL, which run returns as VmExit::Syscall; the worker  *)
(* then services the call (CaseSyscall).  The case is followed until the   *)
(* loop of the worker breaks.                                              *)

\* System calls followed in one fuzz case.
MaxSyscalls == 4

\* i64::MAX and i64::MIN as the u64 a register holds.
I64Max == AllOnes \ {63}
I64Min == {63}

\* The calls the guest makes: <<a7, a0, a1, a2>>.  open of "testfn";
\* read, lseek, fstat, close and write on the first handle open gives (3), on the standard streams, on a descriptor beyond the
\* table; reads into writable memory, into memory that ends in an
\* unmapped block and into code; seeks by 0, 1, -1, i64::MAX and i64::MIN
\* from the start, the cursor and the end, and with other values of
\* whence; exit.
GuestCalls ==
    {<<W(1024), W(DataBase), W(0), W(0)>>,
     <<W(93), W(0), W(0), W(0)>>}
    \cup {<<W(63), W(3), W(DataBase + 8), len>> :
              len \in {W(0), W(1), W(3), AllOnes}}
    \cup {<<W(63), W(3), buf, W(2)>> : buf \in {W(HeapBase - 1), W(0)}}
    \cup {<<W(63), fd, W(DataBase + 8), W(1)>> :
              fd \in {W(0), W(1), W(4), W(7), AllOnes}}
    \cup {<<W(62), W(3), offset, whence>> :
              offset \in {W(0), W(1), AllOnes, I64Max, I64Min},
              whence \in {W(0), W(1), W(2)}}
    \cup {<<W(62), W(3), W(1), whence>> :
              whence \in {W(3), AllOnes, {32}, {0, 32}}}
    \cup {<<W(62), fd, W(0), W(0)>> : fd \in {W(2), W(7)}}
    \cup {<<W(80), fd, W(DataBase), W(0)>> : fd \in {W(3), W(0), W(7)}}
    \cup {<<W(57), fd, W(0), W(0)>> : fd \in {W(3), W(0), W(7)}}
    \cup {<<W(64), fd, W(DataBase), W(1)>> : fd \in {W(1), W(3), W(7)}}

\* The address of the guest's ECALL.
EcallPc == W(0)

\* A call of run up to the guest's next ECALL: the argument registers
\* hold what the guest put there, run returns VmExit::Syscall with PC at
\* the ECALL and the counter has advanced.
GuestEcall ==
    /\ ctl.at = "host"
    /\ vmexit.kind = "Ok"
    /\ run_instrs < MaxSyscalls
    /\ \E call \in GuestCalls :
          emu' = set_reg(set_reg(set_reg(set_reg(set_reg(emu, A7, call[1]),
                                                 A0, call[2]), A1, call[3]),
                                 A2, call[4]), Pc, EcallPc)
    /\ vmexit' = VmExit("Syscall")
    /\ run_instrs' = run_instrs + 1
    /\ UNCHANGED <<original, corpus, jitcache, ctl, start, nset, nreset>>
    /\ UNCHANGED conc

SysNext ==
    \/ CaseReset
    \/ CaseInput
    \/ GuestEcall
    \/ CaseSyscall

\* The guest's image: an ECALL in a loop (ecall; jal x0, -4), and the
\* data.
SysImage == CaseImage(CasePrograms[Len(CasePrograms)], TRUE)

\* The worker of main.rs on that image.
SysInit ==
    /\ original = SysImage
    /\ emu = fork(SysImage)
    /\ start = fork(SysImage)
    /\ corpus = CorpusNew
    /\ jitcache = << >>
    /\ ctl = At("reset")
    /\ vmexit = Ok
    /\ run_instrs = 0
    /\ nset = 0
    /\ nreset = 0
    /\ workers = [w \in Workers |-> WorkerIdle]
    /\ compile_jobs = {}
    /\ jitdir = JitDirEmpty({})
    /\ DriverInit

SysSpec == SysInit /\ [][SysNext]_vars

----------------------------------------------------------------------------
(* Properties of the file system calls                                     *)

\* The slots of the file table that hold a handle on the fuzz input.
FuzzHandles(e) == {i \in 1..Len(e.files) : e.files[i].kind = "FuzzInput"}

\* The worker is about to service the call num on a handle on the fuzz
\* input.
OnFuzzInput(num) ==
    /\ SyscallExit
    /\ reg(emu, A7) = W(num)
    /\ get_file(emu.files, reg(emu, A0)).file.kind = "FuzzInput"

\* The handle the call is made on, the position a seek is taken from and
\* whence as the i32 lseek reads in A2.
CallSlot == N(reg(emu, A0)) + 1
CallCursor == emu.files[CallSlot].cursor
CallWhence == Trunc(reg(emu, A2), 32)
SeekBase ==
    CASE CallWhence = W(0) -> 0
      [] CallWhence = W(1) -> CallCursor
      [] CallWhence = W(2) -> Len(emu.fuzz_input)
      [] OTHER             -> 0

\* The requested position base + offset (offset an i64) clamped into
\* [0, len]: the position itself if it lies in the range, else 0 if the
\* offset is negative and len if it is not.
SeekClamped(base, offset, len) ==
    LET req == {p \in 0..len : wrapping_add(W(base), offset) = W(p)}
    IN  IF req # {} THEN CHOOSE p \in req : TRUE
        ELSE IF 63 \in offset THEN 0 ELSE len

\* C36: within a fuzz case the cursor of every handle on the fuzz input
\* lies in [0, len(fuzz_input)]; lseek with SEEK_SET, SEEK_CUR or SEEK_END
\* sets the cursor to the requested position clamped into that range and
\* returns it in a0; lseek with another whence returns -1 and leaves the
\* cursor as it was.
C36_CursorInBounds ==
    [][/\ \A i \in FuzzHandles(emu') :
             emu'.files[i].cursor \in 0..Len(emu'.fuzz_input)
       /\ OnFuzzInput(62) /\ CallWhence \in {W(0), W(1), W(2)} =>
             LET to == SeekClamped(SeekBase, reg(emu, A1),
                                   Len(emu.fuzz_input))
             IN  /\ emu'.files =
                        [emu.files EXCEPT ![CallSlot] = FuzzInput(to)]
                 /\ reg(emu', A0) = W(to)
                 /\ vmexit' = Ok
       /\ OnFuzzInput(62) /\ CallWhence \notin {W(0), W(1), W(2)} =>
             /\ emu'.files = emu.files
             /\ reg(emu', A0) = AllOnes
             /\ vmexit' = Ok
      ]_vars

\* open, a read of one byte of an input of two, then lseek(3, i64::MAX,
\* SEEK_CUR): the cursor is at the end of the input and a0 holds it.
C36_Witness ==
    /\ ctl.at = "host"
    /\ vmexit = Ok
    /\ run_instrs = 3
    /\ Len(emu.fuzz_input) = 2
    /\ reg(emu, A7) = W(62)
    /\ reg(emu, A1) = I64Max
    /\ reg(emu, A2) = W(1)
    /\ reg(emu, A0) = W(2)
    /\ emu.files[4] = FuzzInput(2)
    /\ emu.memory.memory[DataBase + 8] = emu.fuzz_input[1]
    /\ emu.memory.memory[DataBase + 9] = DataBytes[10]

\* The bytes a read on the handle gives: min(len, len(fuzz_input) - c).
ReadCount ==
    LET len  == reg(emu, A2)
        room == Len(emu.fuzz_input) - CallCursor
    IN  IF Small(len) /\ N(len) < room THEN N(len) ELSE room

\* The n bytes at buf are guest memory the guest may write.
BufWritable(buf, n) ==
    /\ Small(buf)
    /\ N(buf) + n <= MemSize
    /\ \A i \in 0..(n - 1) :
          HasPerm(emu.memory.permissions[N(buf) + i], PERM_WRITE)

\* C37: read(fd, buf, len) on a handle on the fuzz input with cursor c
\* copies input[c .. c+n) to guest memory at buf, n = min(len,
\* len(fuzz_input) - c), returns n in a0 and moves the cursor to c + n;
\* when the n bytes at buf are not writable the worker's loop breaks with
\* the memory fault, the cursor has not moved and a0 is as it was.
C37_ReadCopiesInput ==
    [][OnFuzzInput(63) =>
          LET buf == reg(emu, A1)
              c   == CallCursor
              n   == ReadCount
          IN  IF BufWritable(buf, n)
              THEN /\ \A a \in Addrs :
                         emu'.memory.memory[a] =
                            IF a >= N(buf) /\ a < N(buf) + n
                            THEN emu.fuzz_input[c + (a - N(buf)) + 1]
                            ELSE emu.memory.memory[a]
                   /\ reg(emu', A0) = W(n)
                   /\ emu'.files =
                          [emu.files EXCEPT ![CallSlot] = FuzzInput(c + n)]
                   /\ vmexit' = Ok
              ELSE /\ vmexit'.kind \in {"WriteFault", "AddressMiss"}
                   /\ ctl'.at = "host"
                   /\ emu'.files = emu.files
                   /\ reg(emu', A0) = reg(emu, A0)
                   /\ reg(emu', Pc) = reg(emu, Pc)
      ]_vars

\* open and read(3, buf, 3) on an input of two bytes: both bytes are at
\* buf, a0 is 2 and the cursor is at the end.
C37_Witness ==
    /\ ctl.at = "host"
    /\ vmexit = Ok
    /\ run_instrs = 2
    /\ Len(emu.fuzz_input) = 2
    /\ reg(emu, A7) = W(63)
    /\ reg(emu, A1) = W(DataBase + 8)
    /\ reg(emu, A2) = W(3)
    /\ reg(emu, A0) = W(2)
    /\ emu.files[4] = FuzzInput(2)
    /\ emu.memory.memory[DataBase + 8] = emu.fuzz_input[1]
    /\ emu.memory.memory[DataBase + 9] = emu.fuzz_input[2]
    /\ emu.memory.memory[DataBase + 10] = DataBytes[11]

\* The worker is about to service read, lseek, fstat, write or close.
FileCall ==
    /\ SyscallExit
    /\ reg(emu, A7) \in {W(63), W(62), W(80), W(64), W(57)}

\* The descriptor in a0 is an open file of a kind the call works on: the
\* fuzz input for read, lseek and fstat, stdout and stderr for write, any
\* open file for close.
CallFile == get_file(emu.files, reg(emu, A0))
CallSupported ==
    /\ CallFile.some
    /\ CASE reg(emu, A7) = W(64) -> CallFile.file \in {Stdout, Stderr}
         [] reg(emu, A7) = W(57) -> CallFile.file # None
         [] OTHER                -> CallFile.file.kind = "FuzzInput"

\* C38: read, lseek, fstat, write and close never abort the worker: on
\* any descriptor, the standard streams and the handles on the fuzz input
\* included, the call returns with a value in a0, -1 for a descriptor
\* that is closed, out of range or of a kind the call does not work on,
\* or the worker's loop breaks with an exit.
C38_FileCallsNeverAbort ==
    [][FileCall =>
          /\ ctl'.at = "host"
          /\ vmexit'.kind # "PANIC"
          /\ ~CallSupported => vmexit' = Ok /\ reg(emu', A0) = AllOnes
      ]_vars

----------------------------------------------------------------------------
(* Properties of the allocation shims                                      *)

\* The image has the calloc shim at its breakpoint.
HasCalloc ==
    \E pc \in DOMAIN emu.breakpoints : emu.breakpoints[pc] = "calloc_bp"

\* run_jit is about to call the calloc shim.
CallsCalloc ==
    /\ ctl.at = "jit_exit"
    /\ emu.state.exit_reason = "Breakpoint"
    /\ emu.state.reenter_pc \in DOMAIN emu.breakpoints
    /\ emu.breakpoints[emu.state.reenter_pc] = "calloc_bp"

\* The bytes of the allocation al: <<base, size>>.
BlockOf(al) == {a \in Addrs : a >= N(al[1]) /\ a < N(al[1]) + al[2]}

\* C39: after the calloc shim returned a base B that is not 0 for
\* nmemb * size bytes, a guest load from any byte of [B, B + nmemb * size)
\* succeeds and gives 0, and the next reset restores the bytes it set to
\* 0; when nmemb * size overflows or the allocation fails the shim
\* returns 0; in every case PC is set to RA.
C39_CallocReadableZeroed ==
    [][/\ HasCalloc =>
             \A al \in emu'.memory.allocations \ emu.memory.allocations :
             \A a \in BlockOf(al) :
                 /\ read_into(emu'.memory, W(a), 1).err = Ok
                 /\ read_into(emu'.memory, W(a), 1).bytes = <<0>>
       /\ HasCalloc /\ ctl.at = "reset" =>
             /\ emu'.memory.memory = original.memory.memory
             /\ emu'.memory.permissions = original.memory.permissions
       /\ CallsCalloc =>
             /\ reg(emu', Pc) = reg(emu, Ra)
             /\ vmexit' = vmexit
             /\ (\/ ~checked_mul(reg(emu, A2), reg(emu, A1)).some
                 \/ ~allocate(emu.memory,
                        checked_mul(reg(emu, A2), reg(emu, A1)).val).some)
                  => reg(emu', A0) = {}
      ]_vars

====
